---- MODULE Spec2Model ----
(***************************************************************************)
(* Arbitrage Execution Engine of quantivest/arbitrage-bot                  *)
(* (src/app/arbitrage.py, class ArbitrageBot): the mode lifecycle          *)
(* (start / stop / background test initialization), the Scan Loop          *)
(* (_main_loop), the Scanner (_find_opportunities), the Trade Orchestrator *)
(* (_execute_arbitrage) and the Failsafe Registry.                         *)
(*                                                                         *)
(* The bot runs on one asyncio event loop.  Every coroutine is modelled as *)
(* a process whose program counter names the await at which it is          *)
(* suspended; one action is the code executed between two suspensions.     *)
(* Task.cancel() sets must_cancel; the cancelled task's next step raises   *)
(* CancelledError at that await.  The done-callbacks of a finished task    *)
(* are run in registration order: they are queued in `ready`, and nothing  *)
(* else runs until the queue is empty.                                     *)
(*                                                                         *)
(* Units: prices are USDT per base unit, base amounts are 1/1000 base      *)
(* units, quote amounts are 1/1000 USDT, rates are basis points (1e-4),    *)
(* the clock counts minutes.                                               *)
(***************************************************************************)
EXTENDS Integers, Sequences, FiniteSets, TLC

\* ------------------------------------------------------------------ bounds
MaxCalls == 3
MaxTasks == 3
MaxTrades == 1
MaxFailures == 3
MaxTime == 6
\* settings.FAILSAFE_MAX_FAILURES_PER_PAIR_WINDOW and ..._PER_EXCHANGE_WINDOW are
\* deployment settings (config.py ships 5 and 10 under older names); the model
\* runs a deployment with small thresholds, the pair one below the exchange one.
FAILSAFE_MAX_FAILURES_PER_PAIR_WINDOW == 2
FAILSAFE_MAX_FAILURES_PER_EXCHANGE_WINDOW == 3

\* --------------------------------------------------------- configuration
Exchanges == {"binanceus", "kraken"}
USER_DEFINED_PAIRS == {"BTC/USDT"}

FAILSAFE_MAX_GLOBAL_LOSS_PERCENTAGE == 2
FAILSAFE_COOLDOWN_MINUTES_PAIR == 5
FAILSAFE_COOLDOWN_MINUTES_EXCHANGE == 10

EXCHANGE_FEE_RATES == [e \in Exchanges |-> IF e = "binanceus" THEN 10 ELSE 26]
EXCHANGE_SLIPPAGE_PERCENTAGES == [e \in Exchanges |-> IF e = "binanceus" THEN 4 ELSE 5]
MIN_PROFIT_PERCENTAGE_THRESHOLD == 2
MIN_TRADE_AMOUNT_QUOTE == 10000
MAX_TRADE_AMOUNT_QUOTE == 750000

TaskIds == 1..MaxTasks
CallIds == 1..MaxCalls
None == 0

\* f"{exchange_id}:{pair}", the key of pair_failure_counts
PairKey(e, p) == e \o ":" \o p
PairKeys == {PairKey(e, p) : e \in Exchanges, p \in USER_DEFINED_PAIRS}

VARIABLES
    running,                      \* self.running
    current_mode,                 \* self.current_mode
    main_loop_task,               \* self._main_loop_task (None or a task)
    test_initialization_task,     \* self.test_initialization_task
    test_initializing,            \* self.test_initializing
    global_trading_halt,          \* _failsafe_status_internal.global_trading_halt
    disabled_pairs,               \* key -> timestamp of disablement
    disabled_exchanges,           \* exchange -> timestamp of disablement
    pair_failure_counts,          \* key -> count (0 = absent)
    exchange_failure_counts,      \* exchange -> count (0 = absent)
    historical_high_balance_usdt, \* high-water mark of the portfolio value
    trades,                       \* self.trades, newest first
    test_balances,                \* self.test_balances: exchange -> currency -> free
    tasks,                        \* asyncio tasks: Scan Loops and test initializations
    waiters,                      \* task -> coroutines awaiting it, in order
    ready,                        \* done-callbacks scheduled and not yet run
    calls,                        \* control-plane calls start() / stop() / reactivate()
    ncalls,                       \* number of calls issued
    nfailures,                    \* number of orders the exchanges have failed
    alerts,                       \* alerts added by the last step, in order
    orders,                       \* orders submitted to exchanges by the last step
    last,                         \* the handler step taken last, with its outcome
    min_profit_percentage_threshold, \* self.min_profit_percentage_threshold
    min_trade_amount_quote,       \* self.min_trade_amount_quote
    now,                          \* datetime.now(), minutes
    fee_rates,                    \* taker fee the exchange manager reports, per exchange
    stop_returned                 \* a stop() has returned and no start() was issued since

vars == <<running, current_mode, main_loop_task, test_initialization_task,
          test_initializing, global_trading_halt, disabled_pairs, disabled_exchanges,
          pair_failure_counts, exchange_failure_counts, historical_high_balance_usdt,
          trades, test_balances, tasks, waiters, ready, calls, ncalls, nfailures,
          alerts, orders, last,
          min_profit_percentage_threshold, min_trade_amount_quote, now, fee_rates,
          stop_returned>>

failsafe_vars == <<global_trading_halt, disabled_pairs, disabled_exchanges,
                   pair_failure_counts, exchange_failure_counts,
                   historical_high_balance_usdt>>
lifecycle_vars == <<running, current_mode, main_loop_task, test_initialization_task,
                    test_initializing>>
limit_vars == <<min_profit_percentage_threshold, min_trade_amount_quote>>
output_vars == <<alerts, orders>>

\* ------------------------------------------------------------------ tasks
NoOpp == [pair |-> "", buy_exchange |-> "", sell_exchange |-> "",
          buy_price |-> 0, sell_price |-> 0, potential_profit_percentage |-> 0,
          max_tradeable_amount_base |-> 0]
NoExec == [opp |-> NoOpp, is_test |-> FALSE, amount |-> 0,
           buy_fee_cost |-> 0, sell_fee_cost |-> 0]
NoTask == [kind |-> "none", pc |-> "none", must_cancel |-> FALSE,
           opps |-> <<>>, ex |-> NoExec]
NewTask(kind) == [NoTask EXCEPT !.kind = kind, !.pc = "start"]

IsDone(t) == tasks[t].pc = "done"
\* `self._main_loop_task and not self._main_loop_task.done()`
TaskLive(t) == t # None /\ ~IsDone(t)
FreeTasks == {t \in TaskIds : tasks[t].kind = "none"}
FreshTask == CHOOSE t \in FreeTasks : \A u \in FreeTasks : t <= u
ActiveLoops == {t \in TaskIds : tasks[t].kind = "loop" /\ tasks[t].pc # "done"}

CallWaiter(c) == [k |-> "call", id |-> c]
TaskWaiter(t) == [k |-> "task", id |-> t]

Alert(type, severity, entity) == [type |-> type, severity |-> severity, entity |-> entity]

NoOutput == alerts' = <<>> /\ orders' = <<>>

NoCall == [op |-> "none", arg |-> "", ent |-> "", pc |-> "idle", result |-> "none"]

\* ------------------------------------------------------ Failsafe Registry
NoEntries == [k \in {} |-> 0]
NoBalances == [e \in {} |-> [c \in {} |-> 0]]
PortfolioValues == {90, 100}

\* The registry as one value, so that the steps of one handler compose.
Registry == [halt |-> global_trading_halt,
             disabled_pairs |-> disabled_pairs,
             disabled_exchanges |-> disabled_exchanges,
             pair_failure_counts |-> pair_failure_counts,
             exchange_failure_counts |-> exchange_failure_counts,
             high |-> historical_high_balance_usdt,
             alerts |-> <<>>]

SetRegistry(r) ==
    /\ global_trading_halt' = r.halt
    /\ disabled_pairs' = r.disabled_pairs
    /\ disabled_exchanges' = r.disabled_exchanges
    /\ pair_failure_counts' = r.pair_failure_counts
    /\ exchange_failure_counts' = r.exchange_failure_counts
    /\ historical_high_balance_usdt' = r.high

_add_alert(r, type, severity, entity) ==
    [r EXCEPT !.alerts = Append(@, Alert(type, severity, entity))]

_is_pair_disabled_in(r, pair_id) == pair_id \in DOMAIN r.disabled_pairs
_is_exchange_disabled_in(r, exchange_id) == exchange_id \in DOMAIN r.disabled_exchanges
_is_pair_disabled(pair_id) == pair_id \in DOMAIN disabled_pairs
\* an exchange check that never reports a disablement
_is_exchange_disabled_blind(exchange_id) == FALSE
_is_exchange_disabled(exchange_id) == exchange_id \in DOMAIN disabled_exchanges

\* a disablement that raises no alert
_disable_entity_silent(r, entity_type, entity_id) ==
    IF entity_type = "pair"
    THEN [r EXCEPT !.disabled_pairs = (entity_id :> now) @@ @]
    ELSE IF entity_type = "exchange"
    THEN [r EXCEPT !.disabled_exchanges = (entity_id :> now) @@ @]
    ELSE r

_disable_entity(r, entity_type, entity_id) ==
    IF entity_type = "pair"
    THEN _add_alert([r EXCEPT !.disabled_pairs = (entity_id :> now) @@ @],
                    "FAILSAFE_TRIGGERED", "warning", "global")
    ELSE IF entity_type = "exchange"
    THEN _add_alert([r EXCEPT !.disabled_exchanges = (entity_id :> now) @@ @],
                    "FAILSAFE_TRIGGERED", "warning", entity_id)
    ELSE r

_trigger_global_halt(r) ==
    IF ~r.halt
    THEN _add_alert([r EXCEPT !.halt = TRUE], "FAILSAFE_TRIGGERED", "critical", "global")
    ELSE r

\* loss_percentage > settings.FAILSAFE_MAX_GLOBAL_LOSS_PERCENTAGE
LossExceeds(high, current) ==
    (high - current) * 100 > FAILSAFE_MAX_GLOBAL_LOSS_PERCENTAGE * high

RECURSIVE DisablePairs(_, _)
DisablePairs(r, keys) ==
    IF keys = {} THEN r
    ELSE LET k == CHOOSE x \in keys : TRUE
             r1 == IF r.pair_failure_counts[k] >= FAILSAFE_MAX_FAILURES_PER_PAIR_WINDOW
                      /\ ~_is_pair_disabled_in(r, k)
                   THEN _disable_entity(r, "pair", k) ELSE r
         IN DisablePairs(r1, keys \ {k})

RECURSIVE DisableExchanges(_, _)
DisableExchanges(r, exs) ==
    IF exs = {} THEN r
    ELSE LET e == CHOOSE x \in exs : TRUE
             r1 == IF r.exchange_failure_counts[e] >= FAILSAFE_MAX_FAILURES_PER_EXCHANGE_WINDOW
                      /\ ~_is_exchange_disabled_in(r, e)
                   THEN _disable_entity(r, "exchange", e) ELSE r
         IN DisableExchanges(r1, exs \ {e})

\* `value` is what _get_total_portfolio_value_usdt() returns at this call
_check_failsafes(r, mode, value) ==
    IF mode = "live" /\ r.high > 0 /\ LossExceeds(r.high, value)
    THEN _trigger_global_halt(r)
    ELSE DisableExchanges(DisablePairs(r, PairKeys), Exchanges)

_increment_failure_count(r, exchange_id, pair, mode, value) ==
    LET pair_key == PairKey(exchange_id, pair)
        r1 == [r EXCEPT !.pair_failure_counts[pair_key] = @ + 1,
                        !.exchange_failure_counts[exchange_id] = @ + 1]
    IN _check_failsafes(r1, mode, value)

\* a recovery check that lifts the halt by itself
_check_global_halt_recovery_lifting(r) == [r EXCEPT !.halt = FALSE]
\* `pass`: the halt is left for a manual reactivation
_check_global_halt_recovery(r) == r

Init ==
    /\ running = FALSE
    /\ current_mode = "idle"
    /\ main_loop_task = None
    /\ test_initialization_task = None
    /\ test_initializing = FALSE
    /\ global_trading_halt = FALSE
    /\ disabled_pairs = NoEntries
    /\ disabled_exchanges = NoEntries
    /\ pair_failure_counts = [k \in PairKeys |-> 0]
    /\ exchange_failure_counts = [e \in Exchanges |-> 0]
    /\ historical_high_balance_usdt = 0
    /\ trades = <<>>
    /\ test_balances = NoBalances
    /\ tasks = [t \in TaskIds |-> NoTask]
    /\ waiters = [t \in TaskIds |-> <<>>]
    /\ ready = <<>>
    /\ calls = [c \in CallIds |-> NoCall]
    /\ ncalls = 0
    /\ nfailures = 0
    /\ alerts = <<>>
    /\ last = [op |-> "__init__", arg |-> ""]
    /\ orders = <<>>
    /\ min_profit_percentage_threshold = MIN_PROFIT_PERCENTAGE_THRESHOLD
    /\ min_trade_amount_quote = MIN_TRADE_AMOUNT_QUOTE
    /\ now = 0
    /\ fee_rates = EXCHANGE_FEE_RATES
    /\ stop_returned = FALSE

\* ------------------------------------------------------- mode lifecycle
StartArgs == {"live", "test", "test_bad_settings", "invalid"}

\* Task.cancel().  A task suspended in `await other_task` forwards the request to
\* other_task, which the awaiting code has already cancelled.
Cancel(ts, t) ==
    IF ts[t].pc = "wait_loop" THEN ts ELSE [ts EXCEPT ![t].must_cancel = TRUE]
Return(c, op, arg, ok) ==
    [calls EXCEPT ![c] = [op |-> op, arg |-> arg, ent |-> "", pc |-> "done",
                          result |-> IF ok THEN "ok" ELSE "fail"]]
Suspend(c, op, arg, pc) ==
    [calls EXCEPT ![c] = [op |-> op, arg |-> arg, ent |-> "", pc |-> pc,
                          result |-> "pending"]]
StartInFlight == \E c \in CallIds : calls[c].op = "start" /\ calls[c].pc # "done"

\* stop(): `self.current_mode = "test_idle" if ... == "test_simulating" else "idle"`
StopMode(mode) == IF mode = "test_simulating" THEN "test_idle" ELSE "idle"

\* start(), test branch from `self.current_mode = "test_initializing"` on: the
\* limits are halved and the background initialization task is created.
StartTestTail(c, run0, mlt0) ==
    /\ FreeTasks # {}
    /\ current_mode' = "test_initializing"
    /\ min_profit_percentage_threshold' = MIN_PROFIT_PERCENTAGE_THRESHOLD \div 2
    /\ min_trade_amount_quote' = MIN_TRADE_AMOUNT_QUOTE \div 2
    /\ tasks' = [tasks EXCEPT ![FreshTask] = NewTask("init")]
    /\ test_initialization_task' = FreshTask
    /\ running' = run0
    /\ main_loop_task' = mlt0
    /\ calls' = Return(c, "start", "test", TRUE)
    /\ UNCHANGED waiters

\* start() after `if self.running: await self.stop()`; run0, mode0 and mlt0 are
\* self.running, self.current_mode and self._main_loop_task at that point.
StartBody(c, mode, run0, mode0, mlt0) ==
    \/ /\ mode = "live"
       /\ current_mode' = "live"
       /\ running' = TRUE
       /\ UNCHANGED <<test_initialization_task, limit_vars>>
       /\ IF TaskLive(mlt0)
          THEN /\ tasks' = Cancel(tasks, mlt0)
               /\ waiters' = [waiters EXCEPT ![mlt0] = Append(@, CallWaiter(c))]
               /\ main_loop_task' = mlt0
               /\ calls' = Suspend(c, "start", mode, "start_wait_loop")
          ELSE /\ FreeTasks # {}
               /\ tasks' = [tasks EXCEPT ![FreshTask] = NewTask("loop")]
               /\ main_loop_task' = FreshTask
               /\ calls' = Return(c, "start", mode, TRUE)
               /\ UNCHANGED waiters
    \/ /\ mode = "test"
       /\ IF TaskLive(test_initialization_task)
          THEN /\ tasks' = Cancel(tasks, test_initialization_task)
               /\ waiters' = [waiters EXCEPT ![test_initialization_task] =
                                  Append(@, CallWaiter(c))]
               /\ calls' = Suspend(c, "start", mode, "start_wait_init")
               /\ running' = run0
               /\ current_mode' = mode0
               /\ main_loop_task' = mlt0
               /\ UNCHANGED <<test_initialization_task, limit_vars>>
          ELSE StartTestTail(c, run0, mlt0)
    \/ /\ mode = "test_bad_settings"
       /\ current_mode' = "test_idle"
       /\ running' = run0
       /\ main_loop_task' = mlt0
       /\ calls' = Return(c, "start", mode, FALSE)
       /\ UNCHANGED <<test_initialization_task, limit_vars, tasks, waiters>>
    \/ /\ mode = "invalid"
       /\ current_mode' = mode0
       /\ running' = run0
       /\ main_loop_task' = mlt0
       /\ calls' = Return(c, "start", mode, FALSE)
       /\ UNCHANGED <<test_initialization_task, limit_vars, tasks, waiters>>

\* start(mode, test_settings_data), up to its first suspension
Start(c, mode) ==
    /\ last' = [op |-> "Start", arg |-> mode]
    /\ ready = <<>>
    /\ ncalls < MaxCalls /\ c = ncalls + 1
    /\ ncalls' = c
    /\ stop_returned' = FALSE
    /\ NoOutput
    /\ IF running /\ TaskLive(main_loop_task)
       THEN \* stop() suspends at `await self._main_loop_task`
            /\ running' = FALSE
            /\ current_mode' = StopMode(current_mode)
            /\ tasks' = Cancel(tasks, main_loop_task)
            /\ waiters' = [waiters EXCEPT ![main_loop_task] = Append(@, CallWaiter(c))]
            /\ calls' = Suspend(c, "start", mode, "stop_wait")
            /\ UNCHANGED <<main_loop_task, test_initialization_task, limit_vars>>
       ELSE IF running
       THEN StartBody(c, mode, FALSE, StopMode(current_mode), None)
       ELSE StartBody(c, mode, running, current_mode, main_loop_task)
    /\ UNCHANGED <<test_initializing, failsafe_vars, trades, test_balances, ready, nfailures, now, fee_rates>>

\* stop(), up to its first suspension
Stop(c) ==
    /\ last' = [op |-> "Stop", arg |-> ""]
    /\ ready = <<>>
    /\ ncalls < MaxCalls /\ c = ncalls + 1
    /\ ncalls' = c
    /\ NoOutput
    /\ IF ~running
       THEN /\ current_mode' = IF current_mode = "test_simulating" THEN "test_idle"
                                ELSE IF current_mode = "live" THEN "idle"
                                ELSE current_mode
            /\ calls' = Return(c, "stop", "", TRUE)
            /\ stop_returned' = ~StartInFlight
            /\ UNCHANGED <<running, main_loop_task, tasks, waiters>>
       ELSE /\ running' = FALSE
            /\ current_mode' = StopMode(current_mode)
            /\ IF TaskLive(main_loop_task)
               THEN /\ tasks' = Cancel(tasks, main_loop_task)
                    /\ waiters' = [waiters EXCEPT ![main_loop_task] =
                                       Append(@, CallWaiter(c))]
                    /\ calls' = Suspend(c, "stop", "", "stop_wait")
                    /\ UNCHANGED <<main_loop_task, stop_returned>>
               ELSE /\ main_loop_task' = None
                    /\ calls' = Return(c, "stop", "", TRUE)
                    /\ stop_returned' = ~StartInFlight
                    /\ UNCHANGED <<tasks, waiters>>
    /\ UNCHANGED <<test_initialization_task, test_initializing, limit_vars, failsafe_vars,
                   trades, test_balances, ready, nfailures, now, fee_rates>>

\* A suspended start() or stop() is resumed by the done-callback of the task it awaits.
ResumeCall(c) ==
    /\ last' = [op |-> "ResumeCall", arg |-> calls[c].op]
    /\ ready # <<>> /\ Head(ready) = CallWaiter(c)
    /\ ready' = Tail(ready)
    /\ NoOutput
    /\ \/ \* stop() after `await self._main_loop_task`
          /\ calls[c].pc = "stop_wait" /\ calls[c].op = "stop"
          /\ main_loop_task' = None
          /\ calls' = Return(c, "stop", "", TRUE)
          /\ stop_returned' = ~StartInFlight
          /\ UNCHANGED <<running, current_mode, test_initialization_task, limit_vars,
                         tasks, waiters>>
       \/ \* start() after `await self.stop()`
          /\ calls[c].pc = "stop_wait" /\ calls[c].op = "start"
          /\ StartBody(c, calls[c].arg, running, current_mode, None)
          /\ UNCHANGED stop_returned
       \/ \* start() after `await self._main_loop_task`: the new loop is created
          /\ calls[c].pc = "start_wait_loop"
          /\ FreeTasks # {}
          /\ tasks' = [tasks EXCEPT ![FreshTask] = NewTask("loop")]
          /\ main_loop_task' = FreshTask
          /\ calls' = Return(c, "start", calls[c].arg, TRUE)
          /\ UNCHANGED <<running, current_mode, test_initialization_task, limit_vars,
                         waiters, stop_returned>>
       \/ \* start() after `await self.test_initialization_task`
          /\ calls[c].pc = "start_wait_init"
          /\ StartTestTail(c, running, main_loop_task)
          /\ UNCHANGED stop_returned
    /\ UNCHANGED <<test_initializing, failsafe_vars, trades, test_balances, ncalls, nfailures, now, fee_rates>>

\* ------------------------------------------------------- task completion
\* A task that finishes schedules its done-callbacks in registration order.
Finish(t, ts) ==
    /\ tasks' = [ts EXCEPT ![t] = [NoTask EXCEPT !.kind = ts[t].kind, !.pc = "done"]]
    /\ ready' = waiters[t]
    /\ waiters' = [waiters EXCEPT ![t] = <<>>]

Goto(t, pc) == [tasks EXCEPT ![t].pc = pc]

\* CancelledError raised at the await where the task is suspended.  _main_loop
\* catches it and breaks; _background_initialize_test_balances only catches
\* Exception, so it ends without resetting test_initializing.
TaskCancelled(t) ==
    /\ last' = [op |-> "TaskCancelled", arg |-> tasks[t].kind]
    /\ ready = <<>>
    /\ tasks[t].kind \in {"loop", "init"}
    /\ tasks[t].pc # "done"
    /\ tasks[t].must_cancel
    /\ Finish(t, tasks)
    /\ NoOutput
    /\ UNCHANGED <<lifecycle_vars, limit_vars, failsafe_vars, trades, test_balances,
                   calls, ncalls, nfailures, now, fee_rates, stop_returned>>

\* ---------------------------------------- background test initialization
\* the ledger _initialize_test_balances seeds: the same USDT capital and the same
\* base amount on every exchange
Seed(usdt, btc) == [e \in Exchanges |-> [USDT |-> usdt, BTC |-> btc]]
SeededBalances == Seed(1000000, 1000)
TestSeeds == {SeededBalances, Seed(400000, 1000), Seed(1000000, 300), Seed(4000, 1000)}

\* test settings of the session: usdt_capital_per_exchange (milli-USDT) and
\* asset_capital_usd_per_pair (milli-USD)
UsdtCapitalPerExchange == 1000000
AssetCapitalUsdPerPair == 1000000
\* default_prices["BTC/USDT"]
DEFAULT_BTC_PRICE == 50000
\* `last` of the ticker the price source returns; 0 stands for no usable price
\* (no ticker, no `last`, a non-positive `last`, or fetch_ticker raising)
TickerPrices == {0, 1000}

\* the ledger _initialize_test_balances builds for the two selected exchanges:
\* from the default table when no exchange is connected, else from the ticker of
\* the price source
_initialize_test_balances(connected, ticker) ==
    IF ~connected
    THEN Seed(UsdtCapitalPerExchange, AssetCapitalUsdPerPair \div DEFAULT_BTC_PRICE)
    ELSE Seed(UsdtCapitalPerExchange,
              IF ticker > 0 THEN AssetCapitalUsdPerPair \div ticker ELSE 0)
InitializedLedgers ==
    {_initialize_test_balances(connected, ticker) :
        connected \in BOOLEAN, ticker \in TickerPrices}

\* _background_initialize_test_balances up to `await self._broadcast_bot_status()`
InitBegin(t) ==
    /\ last' = [op |-> "InitBegin", arg |-> ""]
    /\ ready = <<>>
    /\ tasks[t].kind = "init" /\ tasks[t].pc = "start" /\ ~tasks[t].must_cancel
    /\ test_initializing' = TRUE
    /\ tasks' = Goto(t, "seeding")
    /\ NoOutput
    /\ UNCHANGED <<running, current_mode, main_loop_task, test_initialization_task,
                   limit_vars, failsafe_vars, trades, test_balances, waiters, ready,
                   calls, ncalls, nfailures, now, fee_rates, stop_returned>>

\* _initialize_test_balances returned; `ok` is its success flag, `seed` the ledger
\* it built
InitSeeded(t, ok, seed) ==
    /\ last' = [op |-> "InitSeeded", arg |-> IF ok THEN "ok" ELSE "fail"]
    /\ ready = <<>>
    /\ tasks[t].kind = "init" /\ tasks[t].pc = "seeding" /\ ~tasks[t].must_cancel
    /\ NoOutput
    /\ IF ~ok
       THEN /\ test_balances' = NoBalances
            /\ current_mode' = "test_idle"
            /\ test_initializing' = FALSE
            /\ Finish(t, tasks)
            /\ UNCHANGED <<running, main_loop_task>>
       ELSE /\ test_balances' = seed
            /\ IF current_mode # "test_initializing"
               THEN /\ test_initializing' = FALSE
                    /\ Finish(t, tasks)
                    /\ UNCHANGED <<running, current_mode, main_loop_task>>
               ELSE /\ current_mode' = "test_simulating"
                    /\ running' = TRUE
                    /\ IF TaskLive(main_loop_task)
                       THEN /\ tasks' = [Cancel(tasks, main_loop_task)
                                            EXCEPT ![t].pc = "wait_loop"]
                            /\ waiters' = [waiters EXCEPT ![main_loop_task] =
                                               Append(@, TaskWaiter(t))]
                            /\ UNCHANGED <<main_loop_task, test_initializing, ready>>
                       ELSE /\ FreeTasks # {}
                            /\ main_loop_task' = FreshTask
                            /\ test_initializing' = FALSE
                            /\ Finish(t, [tasks EXCEPT ![FreshTask] = NewTask("loop")])
    /\ UNCHANGED <<test_initialization_task, limit_vars, failsafe_vars, trades,
                   calls, ncalls, nfailures, now, fee_rates, stop_returned>>

\* _background_initialize_test_balances after `await self._main_loop_task`
InitResume(t) ==
    /\ last' = [op |-> "InitResume", arg |-> ""]
    /\ ready # <<>> /\ Head(ready) = TaskWaiter(t)
    /\ tasks[t].pc = "wait_loop"
    /\ FreeTasks # {}
    /\ main_loop_task' = FreshTask
    /\ test_initializing' = FALSE
    /\ tasks' = [tasks EXCEPT ![FreshTask] = NewTask("loop"),
                              ![t] = [NoTask EXCEPT !.kind = "init", !.pc = "done"]]
    /\ ready' = Tail(ready) \o waiters[t]
    /\ waiters' = [waiters EXCEPT ![t] = <<>>]
    /\ NoOutput
    /\ UNCHANGED <<running, current_mode, test_initialization_task, limit_vars,
                   failsafe_vars, trades, test_balances, calls, ncalls, nfailures, now, fee_rates, stop_returned>>

\* ------------------------------------------------------- exchange manager
\* taker fees an exchange's market data can carry, in basis points
TakerFees == {50, 150}

\* connect_exchange(): load_markets() brings the exchange's own taker fee, which
\* get_exchange_fee_rate() then prefers over the configured one
connect_exchange(exchange_id, taker) ==
    /\ last' = [op |-> "connect_exchange", arg |-> exchange_id]
    /\ ready = <<>>
    /\ fee_rates[exchange_id] # taker
    /\ fee_rates' = [fee_rates EXCEPT ![exchange_id] = taker]
    /\ NoOutput
    /\ UNCHANGED <<lifecycle_vars, limit_vars, failsafe_vars, trades, test_balances,
                   tasks, waiters, ready, calls, ncalls, nfailures, now, stop_returned>>

get_exchange_fee_rate(exchange_id) == fee_rates[exchange_id]

\* ---------------------------------------------------------------- Scanner
\* Order books as the exchange manager returns them: exchange -> best ask / bid
Book(ask, bid, amount) == [ask |-> ask, bid |-> bid, amount |-> amount]
NoBooks == [e \in {} |-> Book(0, 0, 0)]
BookChoices ==
    { [e \in Exchanges |-> IF e = "binanceus" THEN Book(1000, 997, 2000)
                                              ELSE Book(1013, 1010, 2000)],
      [e \in Exchanges |-> IF e = "binanceus" THEN Book(1000, 997, 500)
                                              ELSE Book(1005, 1002, 500)],
      [e \in {"binanceus"} |-> Book(1000, 997, 500)],
      NoBooks }
MockBookChoices == {b \in BookChoices : DOMAIN b = Exchanges}

\* (buy_fee + sell_fee + buy_slippage + sell_slippage) * 100 + 0.01, in basis points
total_cost_percentage(buy, sell) ==
    get_exchange_fee_rate(buy) + get_exchange_fee_rate(sell)
    + EXCHANGE_SLIPPAGE_PERCENTAGES[buy] + EXCHANGE_SLIPPAGE_PERCENTAGES[sell] + 1

\* profit_percentage > x, with profit_percentage = (bid - ask) / ask * 100 and x
\* in basis points
ProfitAbove(ask, bid, x) == (bid - ask) * 10000 > x * ask

\* the branch of _find_opportunities that appends an opportunity
Emits(books, buy, sell, is_test) ==
    LET ask == books[buy].ask
        bid == books[sell].bid
    IN /\ ~_is_exchange_disabled(buy) /\ ~_is_exchange_disabled(sell)
       /\ ask > 0 /\ bid > 0
       /\ ~ProfitAbove(ask, bid, total_cost_percentage(buy, sell))
       /\ ~(bid > ask /\ is_test /\ ProfitAbove(ask, bid, min_profit_percentage_threshold))

Opportunity(pair, books, buy, sell) ==
    [pair |-> pair, buy_exchange |-> buy, sell_exchange |-> sell,
     buy_price |-> books[buy].ask, sell_price |-> books[sell].bid,
     potential_profit_percentage |->
         ((books[sell].bid - books[buy].ask) * 10000) \div books[buy].ask,
     max_tradeable_amount_base |->
         IF books[buy].amount < books[sell].amount THEN books[buy].amount
                                                   ELSE books[sell].amount]

\* potential_profit_percentage of a strictly above that of b
MoreProfitable(a, b) ==
    (a.sell_price - a.buy_price) * b.buy_price > (b.sell_price - b.buy_price) * a.buy_price

\* opportunities.sort(key=potential_profit_percentage, reverse=True): stable
RECURSIVE SortedInsert(_, _)
SortedInsert(sorted, o) ==
    IF sorted = <<>> THEN <<o>>
    ELSE IF MoreProfitable(o, Head(sorted)) THEN <<o>> \o sorted
    ELSE <<Head(sorted)>> \o SortedInsert(Tail(sorted), o)

RECURSIVE SortDescending(_)
SortDescending(seq) ==
    IF seq = <<>> THEN <<>>
    ELSE SortedInsert(SortDescending(SubSeq(seq, 1, Len(seq) - 1)), seq[Len(seq)])

\* the (i, j) loop over the exchanges that have a book for the pair
Directions == <<<<"binanceus", "kraken">>, <<"kraken", "binanceus">>>>

RECURSIVE ScanDirections(_, _, _, _)
ScanDirections(pair, books, dirs, is_test) ==
    IF dirs = <<>> THEN <<>>
    ELSE LET d == Head(dirs)
             rest == ScanDirections(pair, books, Tail(dirs), is_test)
         IN IF Emits(books, d[1], d[2], is_test)
            THEN <<Opportunity(pair, books, d[1], d[2])>> \o rest
            ELSE rest

_find_opportunities(books, is_test) ==
    LET pair == "BTC/USDT"
    IN IF _is_pair_disabled(pair) \/ DOMAIN books # Exchanges
       THEN <<>>
       ELSE SortDescending(ScanDirections(pair, books, Directions, is_test))

\* ---------------------------------------------- Scanner, three exchanges
\* The scan over three of the SUPPORTED_EXCHANGES, with the fee and slippage the
\* configuration gives each of them (basis points).
SCAN_EXCHANGES == <<"binanceus", "kraken", "gemini">>
CONFIGURED_FEE_RATE(e) ==
    IF e = "binanceus" THEN 10 ELSE IF e = "kraken" THEN 26 ELSE 35
CONFIGURED_SLIPPAGE(e) ==
    IF e = "binanceus" THEN 4 ELSE IF e = "kraken" THEN 5 ELSE 6
configured_cost_percentage(buy, sell) ==
    CONFIGURED_FEE_RATE(buy) + CONFIGURED_FEE_RATE(sell)
    + CONFIGURED_SLIPPAGE(buy) + CONFIGURED_SLIPPAGE(sell) + 1

\* the (i, j) loop, i # j, in the order of the exchange dictionary
RECURSIVE DirectionsFrom(_, _)
DirectionsFrom(i, j) ==
    IF i > Len(SCAN_EXCHANGES) THEN <<>>
    ELSE IF j > Len(SCAN_EXCHANGES) THEN DirectionsFrom(i + 1, 1)
    ELSE IF i = j THEN DirectionsFrom(i, j + 1)
    ELSE <<<<SCAN_EXCHANGES[i], SCAN_EXCHANGES[j]>>>> \o DirectionsFrom(i, j + 1)

\* the branch that appends an opportunity, live mode
EmitsAmong(books, buy, sell) ==
    LET ask == books[buy].ask
        bid == books[sell].bid
    IN /\ ~_is_exchange_disabled(buy) /\ ~_is_exchange_disabled(sell)
       /\ ask > 0 /\ bid > 0
       /\ ~ProfitAbove(ask, bid, configured_cost_percentage(buy, sell))

RECURSIVE ScanAmong(_, _, _)
ScanAmong(pair, books, dirs) ==
    IF dirs = <<>> THEN <<>>
    ELSE LET d == Head(dirs)
             rest == ScanAmong(pair, books, Tail(dirs))
         IN IF EmitsAmong(books, d[1], d[2])
            THEN <<Opportunity(pair, books, d[1], d[2])>> \o rest
            ELSE rest

_find_opportunities_among(books) ==
    IF _is_pair_disabled("BTC/USDT") THEN <<>>
    ELSE SortDescending(ScanAmong("BTC/USDT", books, DirectionsFrom(1, 1)))

\* markets of the three exchanges: binanceus is the cheap side, kraken and gemini
\* bid above it by a few basis points
\* an OrderBook with the age of its timestamp, in seconds, at the scan
AgedBook(ask, bid, amount, age) == [ask |-> ask, bid |-> bid, amount |-> amount, age |-> age]
SnapshotAges == {1, 7}
ThreeBooks ==
    { [e \in {"binanceus", "kraken", "gemini"} |->
          IF e = "binanceus" THEN AgedBook(2000, 1998, 500, 1)
          ELSE IF e = "kraken" THEN AgedBook(2020, kb, 500, 1)
          ELSE AgedBook(2020, gb, 500, age)] :
      kb \in {2006, 2009}, gb \in {2008, 2010}, age \in SnapshotAges }

ORDER_BOOK_STALENESS_THRESHOLD_SECONDS == 5
\* the exchanges whose snapshot is older than the staleness threshold
Stale(books) ==
    {e \in DOMAIN books : books[e].age > ORDER_BOOK_STALENESS_THRESHOLD_SECONDS}

\* ------------------------------------------------- fetch_order_book, retries
\* outcomes[i] is what the i-th exchange.fetch_order_book call does: "ok" (a book
\* comes back and parses) or "error" (the call or the parsing raises)
MaxProbe == 5
\* the exchange fails until its k-th call and answers from then on (never, for
\* k = MaxProbe + 1)
AttemptOutcomes ==
    {[i \in 1..MaxProbe |-> IF i < k THEN "error" ELSE "ok"] : k \in 1..(MaxProbe + 1)}
\* max_retries as the callers pass it: the Scan Loop passes 3
RetryLimits == {0, 3}
NoSnapshot == 0

\* a retry loop that allows one attempt more than max_retries + 1
RECURSIVE fetch_attempts_one_more(_, _, _, _, _)
fetch_attempts_one_more(outcomes, max_retries, attempts, backoff, backoffs) ==
    IF attempts > max_retries + 1
    THEN [snapshot |-> NoSnapshot, calls |-> attempts, backoffs |-> backoffs]
    ELSE IF outcomes[attempts + 1] = "ok"
    THEN [snapshot |-> attempts + 1, calls |-> attempts + 1, backoffs |-> backoffs]
    ELSE IF attempts + 1 <= max_retries + 1
    THEN fetch_attempts_one_more(outcomes, max_retries, attempts + 1, backoff * 2,
                                 Append(backoffs, backoff))
    ELSE [snapshot |-> NoSnapshot, calls |-> attempts + 1, backoffs |-> backoffs]

\* `while attempts <= max_retries`: `attempts` failures so far, `backoff` the next
\* wait in units of initial_backoff, `backoffs` the waits already slept.  The
\* result carries the attempt whose book is returned (NoSnapshot for None) and
\* the number of exchange calls made.
RECURSIVE fetch_attempts(_, _, _, _, _)
fetch_attempts(outcomes, max_retries, attempts, backoff, backoffs) ==
    IF attempts > max_retries
    THEN [snapshot |-> NoSnapshot, calls |-> attempts, backoffs |-> backoffs]
    ELSE IF outcomes[attempts + 1] = "ok"
    THEN [snapshot |-> attempts + 1, calls |-> attempts + 1, backoffs |-> backoffs]
    ELSE IF attempts + 1 <= max_retries
    THEN fetch_attempts(outcomes, max_retries, attempts + 1, backoff * 2,
                        Append(backoffs, backoff))
    ELSE [snapshot |-> NoSnapshot, calls |-> attempts + 1, backoffs |-> backoffs]

fetch_order_book(connected, outcomes, max_retries) ==
    IF ~connected THEN [snapshot |-> NoSnapshot, calls |-> 0, backoffs |-> <<>>]
    ELSE fetch_attempts(outcomes, max_retries, 0, 1, <<>>)

\* self.is_actively_simulating_test_mode
is_actively_simulating_test_mode == current_mode = "test_simulating" /\ running

\* -------------------------------------------------------------- Scan Loop
LoopAt(t, pcs) ==
    /\ ready = <<>>
    /\ tasks[t].kind = "loop" /\ tasks[t].pc \in pcs /\ ~tasks[t].must_cancel

\* a loop that, once in the halt sleep, never looks at the flag again
LoopIterate_deaf(t) ==
    /\ last' = [op |-> "LoopIterate", arg |-> tasks[t].pc]
    /\ LoopAt(t, {"start", "sleep", "halt_sleep"})
    /\ SetRegistry(Registry)
    /\ alerts' = <<>>
    /\ IF ~running
       THEN Finish(t, tasks)
       ELSE /\ tasks' = Goto(t, IF global_trading_halt \/ tasks[t].pc = "halt_sleep"
                                THEN "halt_sleep" ELSE "fetch")
            /\ UNCHANGED <<waiters, ready>>
    /\ orders' = <<>>
    /\ UNCHANGED <<lifecycle_vars, limit_vars, trades, test_balances,
                   calls, ncalls, nfailures, now, fee_rates, stop_returned>>

\* The top of an iteration, entered when the task starts and after each sleep:
\* after the halt sleep _check_global_halt_recovery() runs, then `while
\* self.running:` and the global-halt branch decide where the loop suspends next.
LoopIterate(t) ==
    /\ last' = [op |-> "LoopIterate", arg |-> tasks[t].pc]
    /\ LoopAt(t, {"start", "sleep", "halt_sleep"})
    /\ LET r == IF tasks[t].pc = "halt_sleep" THEN _check_global_halt_recovery(Registry)
                ELSE Registry
       IN /\ SetRegistry(r)
          /\ alerts' = r.alerts
          /\ IF ~running
             THEN Finish(t, tasks)
             ELSE /\ tasks' = Goto(t, IF r.halt THEN "halt_sleep" ELSE "fetch")
                  /\ UNCHANGED <<waiters, ready>>
    /\ orders' = <<>>
    /\ UNCHANGED <<lifecycle_vars, limit_vars, trades, test_balances,
                   calls, ncalls, nfailures, now, fee_rates, stop_returned>>

\* `for exchange_id in self.exchanges`: the exchanges a fetch sends its
\* order-book requests to are the connected ones
QueriedExchanges == Exchanges

\* get_all_order_books_for_pairs returned `books`; the scan follows
FetchBooks(t, books) ==
    /\ last' = [op |-> "FetchBooks", arg |-> IF DOMAIN books = Exchanges THEN "both"
                                             ELSE IF books = NoBooks THEN "none"
                                             ELSE "partial"]
    /\ LoopAt(t, {"fetch"})
    /\ IF books = NoBooks
       THEN /\ alerts' = <<Alert("SYSTEM_WARNING", "warning", "global")>>
            /\ tasks' = Goto(t, "sleep")
       ELSE /\ alerts' = <<>>
            /\ tasks' = [tasks EXCEPT ![t].pc = "batch",
                            ![t].opps = _find_opportunities(books, is_actively_simulating_test_mode)]
    /\ orders' = <<>>
    /\ UNCHANGED <<lifecycle_vars, limit_vars, failsafe_vars, trades, test_balances,
                   waiters, ready, calls, ncalls, nfailures, now, fee_rates, stop_returned>>

\* get_all_order_books_for_pairs returned the books of three exchanges
FetchBooksAmong(t, books) ==
    /\ last' = [op |-> "FetchBooksAmong", arg |-> Stale(books)]
    /\ LoopAt(t, {"fetch"})
    /\ alerts' = <<>>
    /\ tasks' = [tasks EXCEPT ![t].pc = "batch", ![t].opps = _find_opportunities_among(books)]
    /\ orders' = <<>>
    /\ UNCHANGED <<lifecycle_vars, limit_vars, failsafe_vars, trades, test_balances,
                   waiters, ready, calls, ncalls, nfailures, now, fee_rates, stop_returned>>

\* get_all_order_books_for_pairs over fetch_order_book: the books that come back
\* are those of the exchanges whose fetch returned a snapshot
FetchRetried(t, connected, outcomes, max_retries) ==
    /\ LoopAt(t, {"fetch"})
    /\ LET ret == [e \in Exchanges |->
                      fetch_order_book(connected[e], outcomes[e], max_retries)]
           got == {e \in Exchanges : ret[e].snapshot # NoSnapshot}
           books == [e \in got |-> IF e = "binanceus" THEN Book(1000, 997, 500)
                                                      ELSE Book(1005, 1002, 500)]
       IN /\ last' = [op |-> "FetchRetried",
                      arg |-> [connected |-> connected, outcomes |-> outcomes,
                               max_retries |-> max_retries, ret |-> ret]]
          /\ IF books = NoBooks
             THEN /\ alerts' = <<Alert("SYSTEM_WARNING", "warning", "global")>>
                  /\ tasks' = Goto(t, "sleep")
             ELSE /\ alerts' = <<>>
                  /\ tasks' = [tasks EXCEPT ![t].pc = "batch",
                                  ![t].opps = _find_opportunities(books,
                                                  is_actively_simulating_test_mode)]
    /\ orders' = <<>>
    /\ UNCHANGED <<lifecycle_vars, limit_vars, failsafe_vars, trades, test_balances,
                   waiters, ready, calls, ncalls, nfailures, now, fee_rates, stop_returned>>

\* get_all_order_books_for_pairs raised; test mode scans mock books instead
FetchFailed(t, mock) ==
    /\ last' = [op |-> "FetchFailed", arg |-> ""]
    /\ LoopAt(t, {"fetch"})
    /\ IF is_actively_simulating_test_mode
       THEN /\ alerts' = <<Alert("SYSTEM_WARNING", "warning", "global")>>
            /\ tasks' = [tasks EXCEPT ![t].pc = "batch",
                            ![t].opps = _find_opportunities(mock, TRUE)]
       ELSE /\ alerts' = <<>>
            /\ tasks' = Goto(t, "sleep")
    /\ orders' = <<>>
    /\ UNCHANGED <<lifecycle_vars, limit_vars, failsafe_vars, trades, test_balances,
                   waiters, ready, calls, ncalls, nfailures, now, fee_rates, stop_returned>>

\* end of the batch (or `break` on a halt), then `if not self.running: break`
BatchEnd(t) ==
    /\ last' = [op |-> "BatchEnd", arg |-> ""]
    /\ LoopAt(t, {"batch"})
    /\ tasks[t].opps = <<>> \/ global_trading_halt
    /\ IF ~running
       THEN Finish(t, tasks)
       ELSE /\ tasks' = [tasks EXCEPT ![t].pc = "sleep", ![t].opps = <<>>]
            /\ UNCHANGED <<waiters, ready>>
    /\ NoOutput
    /\ UNCHANGED <<lifecycle_vars, limit_vars, failsafe_vars, trades, test_balances,
                   calls, ncalls, nfailures, now, fee_rates, stop_returned>>

\* ------------------------------------------------------ Trade Orchestrator
Min(a, b) == IF a < b THEN a ELSE b

\* a trade size that ignores the per-trade notional cap
TradeSize_uncapped(opp, quote_balance, base_balance) ==
    LET max_buyable == ((quote_balance * 99) \div 100) \div opp.buy_price
        max_sellable == (base_balance * 99) \div 100
        tradable == Min(opp.max_tradeable_amount_base, Min(max_buyable, max_sellable))
    IN IF tradable * opp.buy_price < min_trade_amount_quote THEN 0 ELSE tradable

\* tradable_base_amount * opportunity.buy_price before the notional limits apply
buy_leg_quote_value(opp, quote_balance, base_balance) ==
    LET max_buyable == ((quote_balance * 99) \div 100) \div opp.buy_price
        max_sellable == (base_balance * 99) \div 100
    IN Min(opp.max_tradeable_amount_base, Min(max_buyable, max_sellable)) * opp.buy_price

\* a trade size that ignores the minimum notional
TradeSize_no_minimum(opp, quote_balance, base_balance) ==
    LET value == buy_leg_quote_value(opp, quote_balance, base_balance)
    IN IF value > MAX_TRADE_AMOUNT_QUOTE THEN MAX_TRADE_AMOUNT_QUOTE \div opp.buy_price
       ELSE value \div opp.buy_price

\* trade size in base units from the free balances; 0 when the execution is skipped
TradeSize(opp, quote_balance, base_balance) ==
    LET max_buyable == ((quote_balance * 99) \div 100) \div opp.buy_price
        max_sellable == (base_balance * 99) \div 100
        tradable == Min(opp.max_tradeable_amount_base, Min(max_buyable, max_sellable))
        value == tradable * opp.buy_price
    IN IF value < min_trade_amount_quote THEN 0
       ELSE IF value > MAX_TRADE_AMOUNT_QUOTE THEN MAX_TRADE_AMOUNT_QUOTE \div opp.buy_price
       ELSE tradable

Free(balances, e, c) ==
    IF e \in DOMAIN balances /\ c \in DOMAIN balances[e] THEN balances[e][c] ELSE 0

Order(e, side, opp, amount) ==
    [exchange |-> e, pair |-> opp.pair, side |-> side, amount |-> amount,
     price |-> IF side = "buy" THEN opp.buy_price ELSE opp.sell_price]

\* amount * buy_price * (1 + slippage) and amount * sell_price * (1 - slippage)
cost_with_slippage(opp, amount) ==
    amount * opp.buy_price
    + (amount * opp.buy_price * EXCHANGE_SLIPPAGE_PERCENTAGES[opp.buy_exchange]) \div 10000
proceeds_with_slippage(opp, amount) ==
    amount * opp.sell_price
    - (amount * opp.sell_price * EXCHANGE_SLIPPAGE_PERCENTAGES[opp.sell_exchange]) \div 10000

buy_fee_cost(opp, amount) ==
    (cost_with_slippage(opp, amount) * get_exchange_fee_rate(opp.buy_exchange)) \div 10000
sell_fee_cost(opp, amount) ==
    (proceeds_with_slippage(opp, amount) * get_exchange_fee_rate(opp.sell_exchange)) \div 10000

\* the ArbitrageTrade record: profit_quote = revenue - cost with the fees of the
\* two legs, profit_percentage = profit_quote / cost * 100 in basis points
ArbitrageTrade(opp, amount, is_test, buy_fee, sell_fee) ==
    LET cost == amount * opp.buy_price + buy_fee
        revenue == amount * opp.sell_price - sell_fee
    IN [pair |-> opp.pair, buy_exchange |-> opp.buy_exchange,
        sell_exchange |-> opp.sell_exchange, amount |-> amount,
        buy_price |-> opp.buy_price, sell_price |-> opp.sell_price,
        profit_quote |-> revenue - cost,
        profit_percentage |-> IF cost > 0 THEN ((revenue - cost) * 10000) \div cost ELSE 0,
        is_test_trade |-> is_test]

\* simulated fills that credit the sale without its fee
SimulatedFill_feeless_sale(balances, opp, amount) ==
    LET b == opp.buy_exchange
        s == opp.sell_exchange
        b1 == [balances EXCEPT ![b].USDT = @ - (cost_with_slippage(opp, amount)
                                                + buy_fee_cost(opp, amount)),
                               ![b].BTC = @ + amount]
    IN [b1 EXCEPT ![s].BTC = @ - amount,
                  ![s].USDT = @ + proceeds_with_slippage(opp, amount)]

\* the simulated fills applied to the virtual ledger
SimulatedFill(balances, opp, amount) ==
    LET b == opp.buy_exchange
        s == opp.sell_exchange
        b1 == [balances EXCEPT ![b].USDT = @ - (cost_with_slippage(opp, amount)
                                                + buy_fee_cost(opp, amount)),
                               ![b].BTC = @ + amount]
    IN [b1 EXCEPT ![s].BTC = @ - amount,
                  ![s].USDT = @ + (proceeds_with_slippage(opp, amount)
                                   - sell_fee_cost(opp, amount))]

\* free balances get_balances() can report: quote on the buy side, base on the sell side
LiveBalances == {[quote |-> 2000000, base |-> 2000], [quote |-> 5000, base |-> 2000]}
OrderResults == {"ok", "none", "raise"}
\* a LIMIT order can also come back placed (with an id) and only partly filled
BuyOrderResults == OrderResults \cup {"partial"}
\* the `filled` amount of the order create_order() returned
filled(result, amount) ==
    IF result = "ok" THEN amount ELSE IF result = "partial" THEN amount \div 2 ELSE 0

\* the `for opp in opportunities` step: _execute_arbitrage(opp) up to its first
\* suspension.  Test mode sizes and fills against the virtual ledger; live mode
\* suspends in get_balances().
ExecBegin(t) ==
    /\ last' = [op |-> "ExecBegin", arg |-> ""]
    /\ LoopAt(t, {"batch"})
    /\ tasks[t].opps # <<>> /\ ~global_trading_halt
    /\ LET opp == Head(tasks[t].opps)
           is_test == is_actively_simulating_test_mode
           amount == TradeSize(opp, Free(test_balances, opp.buy_exchange, "USDT"),
                               Free(test_balances, opp.sell_exchange, "BTC"))
       IN IF ~is_test
          THEN /\ tasks' = [tasks EXCEPT ![t].pc = "exec_bal", ![t].opps = Tail(@),
                               ![t].ex = [NoExec EXCEPT !.opp = opp]]
               /\ UNCHANGED test_balances
          ELSE IF amount = 0
          THEN /\ tasks' = [tasks EXCEPT ![t].opps = Tail(@)]
               /\ UNCHANGED test_balances
          ELSE /\ Len(trades) < MaxTrades
               /\ tasks' = [tasks EXCEPT ![t].pc = "exec_record", ![t].opps = Tail(@),
                               ![t].ex = [opp |-> opp, is_test |-> TRUE, amount |-> amount,
                                         buy_fee_cost |-> buy_fee_cost(opp, amount),
                                         sell_fee_cost |-> sell_fee_cost(opp, amount)]]
               /\ test_balances' = SimulatedFill(test_balances, opp, amount)
    /\ NoOutput
    /\ UNCHANGED <<lifecycle_vars, limit_vars, failsafe_vars, trades, waiters, ready,
                   calls, ncalls, nfailures, now, fee_rates, stop_returned>>

\* a settlement that stores the latest portfolio value instead of the highest
SettledRegistry_latest(r, is_test, value) ==
    [r EXCEPT !.high = IF ~is_test THEN value ELSE @]

\* `if not is_test:` of the settlement: the registry after the high-water mark
\* has been compared with the portfolio value `value`
SettledRegistry(r, is_test, value) ==
    [r EXCEPT !.high = IF ~is_test /\ value > @ THEN value ELSE @]

\* the trade record and the success alert; live mode also refreshes the high-water
\* mark from the portfolio value `value`
Settle(t, value) ==
    LET ex == tasks[t].ex
    IN /\ trades' = <<ArbitrageTrade(ex.opp, ex.amount, ex.is_test,
                                   ex.buy_fee_cost, ex.sell_fee_cost)>> \o trades
       /\ historical_high_balance_usdt' = SettledRegistry(Registry, ex.is_test, value).high
       /\ alerts' = <<Alert(IF ex.is_test THEN "TEST_TRADE_SUCCESS" ELSE "TRADE_SUCCESS",
                            "info", "global")>>
       /\ tasks' = [tasks EXCEPT ![t].pc = "batch", ![t].ex = NoExec]
       /\ UNCHANGED <<global_trading_halt, disabled_pairs, disabled_exchanges,
                      pair_failure_counts, exchange_failure_counts>>

\* test mode, after `await self._broadcast_bot_status()`
ExecRecord(t) ==
    /\ last' = [op |-> "ExecRecord", arg |-> ""]
    /\ LoopAt(t, {"exec_record"})
    /\ Settle(t, 0)
    /\ orders' = <<>>
    /\ UNCHANGED <<lifecycle_vars, limit_vars, test_balances, waiters, ready,
                   calls, ncalls, nfailures, now, fee_rates, stop_returned>>

\* live mode: get_balances() returned; size the trade and submit the BUY order
ExecBalances(t, bal) ==
    /\ last' = [op |-> "ExecBalances", arg |-> ""]
    /\ LoopAt(t, {"exec_bal"})
    /\ LET opp == tasks[t].ex.opp
           amount == TradeSize(opp, bal.quote, bal.base)
       IN IF amount = 0
          THEN /\ tasks' = [tasks EXCEPT ![t].pc = "batch", ![t].ex = NoExec]
               /\ orders' = <<>>
          ELSE /\ tasks' = [tasks EXCEPT ![t].pc = "exec_buy", ![t].ex.amount = amount]
               /\ orders' = <<Order(opp.buy_exchange, "buy", opp, amount)>>
    /\ alerts' = <<>>
    /\ UNCHANGED <<lifecycle_vars, limit_vars, failsafe_vars, trades, test_balances,
                   waiters, ready, calls, ncalls, nfailures, now, fee_rates, stop_returned>>

\* an execution error that escapes the loop's handlers and ends the task
ExecutionError_fatal(t, value) ==
    LET opp == tasks[t].ex.opp
        r1 == _add_alert(Registry, "TRADE_FAILURE", "critical", "global")
        r2 == _increment_failure_count(r1, opp.buy_exchange, opp.pair, current_mode, value)
        r3 == _increment_failure_count(r2, opp.sell_exchange, opp.pair, current_mode, value)
    IN /\ SetRegistry(r3)
       /\ alerts' = r3.alerts
       /\ orders' = <<>>
       /\ tasks' = [tasks EXCEPT ![t].pc = "done", ![t].ex = NoExec]

\* `except Exception` of _execute_arbitrage: critical alert, both legs counted
ExecutionError(t, value) ==
    LET opp == tasks[t].ex.opp
        r1 == _add_alert(Registry, "TRADE_FAILURE", "critical", "global")
        r2 == _increment_failure_count(r1, opp.buy_exchange, opp.pair, current_mode, value)
        r3 == _increment_failure_count(r2, opp.sell_exchange, opp.pair, current_mode, value)
    IN /\ SetRegistry(r3)
       /\ alerts' = r3.alerts
       /\ orders' = <<>>
       /\ tasks' = [tasks EXCEPT ![t].pc = "batch", ![t].ex = NoExec]

\* a failed leg that puts the same order to the exchange again
LegFailed_resubmitting(t, exchange_id, value) ==
    LET opp == tasks[t].ex.opp
        r1 == _add_alert(Registry, "TRADE_FAILURE", "error", exchange_id)
        r2 == _increment_failure_count(r1, exchange_id, opp.pair, current_mode, value)
    IN /\ SetRegistry(r2)
       /\ alerts' = r2.alerts
       /\ orders' = <<Order(exchange_id, IF exchange_id = opp.buy_exchange THEN "buy" ELSE "sell",
                            opp, tasks[t].ex.amount)>>
       /\ UNCHANGED tasks

\* a leg's create_order() returned no order: error alert, that leg's counter
LegFailed(t, exchange_id, value) ==
    LET opp == tasks[t].ex.opp
        r1 == _add_alert(Registry, "TRADE_FAILURE", "error", exchange_id)
        r2 == _increment_failure_count(r1, exchange_id, opp.pair, current_mode, value)
    IN /\ SetRegistry(r2)
       /\ alerts' = r2.alerts
       /\ orders' = <<>>
       /\ tasks' = [tasks EXCEPT ![t].pc = "batch", ![t].ex = NoExec]

\* live mode: the BUY create_order() finished with `result`
BuyResult(t, result, value) ==
    /\ last' = [op |-> "BuyResult", arg |-> result]
    /\ LoopAt(t, {"exec_buy"})
    /\ LET opp == tasks[t].ex.opp
       IN \/ /\ result \in {"ok", "partial"}
             /\ tasks' = Goto(t, "exec_sell")
             /\ orders' = <<Order(opp.sell_exchange, "sell", opp, tasks[t].ex.amount)>>
             /\ alerts' = <<>>
             /\ UNCHANGED <<failsafe_vars, nfailures>>
          \/ /\ result = "none"
             /\ nfailures < MaxFailures /\ nfailures' = nfailures + 1
             /\ LegFailed(t, opp.buy_exchange, value)
          \/ /\ result = "raise"
             /\ nfailures < MaxFailures /\ nfailures' = nfailures + 1
             /\ ExecutionError(t, value)
    /\ UNCHANGED <<lifecycle_vars, limit_vars, trades, test_balances, waiters, ready,
                   calls, ncalls, now, fee_rates, stop_returned>>

\* live mode: the SELL create_order() finished with `result`
SellResult(t, result, value) ==
    /\ last' = [op |-> "SellResult", arg |-> result]
    /\ LoopAt(t, {"exec_sell"})
    /\ LET opp == tasks[t].ex.opp
       IN \/ /\ result = "ok"
             /\ Len(trades) < MaxTrades
             /\ Settle(t, value)
             /\ orders' = <<>>
             /\ UNCHANGED nfailures
          \/ /\ result = "none"
             /\ nfailures < MaxFailures /\ nfailures' = nfailures + 1
             /\ LegFailed(t, opp.sell_exchange, value)
             /\ UNCHANGED trades
          \/ /\ result = "raise"
             /\ nfailures < MaxFailures /\ nfailures' = nfailures + 1
             /\ ExecutionError(t, value)
             /\ UNCHANGED trades
    /\ UNCHANGED <<lifecycle_vars, limit_vars, test_balances, waiters, ready,
                   calls, ncalls, now, fee_rates, stop_returned>>

\* live mode: the SELL order was placed and the execution settles while the
\* portfolio is worth `value`; up to MaxSettlements executions settle
MaxSettlements == 2
SellSettled(t, value) ==
    /\ LoopAt(t, {"exec_sell"})
    /\ Len(trades) < MaxSettlements
    /\ last' = [op |-> "SellSettled", arg |-> value]
    /\ Settle(t, value)
    /\ orders' = <<>>
    /\ UNCHANGED <<lifecycle_vars, limit_vars, test_balances, waiters, ready,
                   calls, ncalls, nfailures, now, fee_rates, stop_returned>>

\* ------------------------------------------------- control plane: failsafe
EntityTypes == {"global", "pair", "exchange"}
EntityIds == PairKeys \cup USER_DEFINED_PAIRS \cup Exchanges

Without(f, k) == [x \in DOMAIN f \ {k} |-> f[x]]

\* a reactivation that also forgets the failure counts when nothing is disabled
reactivate_failsafe_entity_forgetful(r, entity_type, entity_id) ==
    IF entity_type = "global" /\ r.halt
    THEN [ok |-> TRUE,
          r |-> _add_alert([r EXCEPT !.halt = FALSE], "FAILSAFE_DEACTIVATED", "info", "global")]
    ELSE IF entity_type = "pair" /\ entity_id \in DOMAIN r.disabled_pairs
    THEN [ok |-> TRUE,
          r |-> _add_alert([r EXCEPT !.disabled_pairs = Without(@, entity_id),
                                     !.pair_failure_counts[entity_id] = 0],
                           "FAILSAFE_DEACTIVATED", "info", "global")]
    ELSE IF entity_type = "exchange" /\ entity_id \in DOMAIN r.disabled_exchanges
    THEN [ok |-> TRUE,
          r |-> _add_alert([r EXCEPT !.disabled_exchanges = Without(@, entity_id),
                                     !.exchange_failure_counts[entity_id] = 0],
                           "FAILSAFE_DEACTIVATED", "info", entity_id)]
    ELSE [ok |-> FALSE,
          r |-> [r EXCEPT !.pair_failure_counts = [k \in DOMAIN @ |-> 0],
                          !.exchange_failure_counts = [e \in DOMAIN @ |-> 0]]]

\* a reactivation that re-enables the entity but keeps its failure count
reactivate_failsafe_entity_keeping_counts(r, entity_type, entity_id) ==
    IF entity_type = "global" /\ r.halt
    THEN [ok |-> TRUE,
          r |-> _add_alert([r EXCEPT !.halt = FALSE], "FAILSAFE_DEACTIVATED", "info", "global")]
    ELSE IF entity_type = "pair" /\ entity_id \in DOMAIN r.disabled_pairs
    THEN [ok |-> TRUE,
          r |-> _add_alert([r EXCEPT !.disabled_pairs = Without(@, entity_id)],
                           "FAILSAFE_DEACTIVATED", "info", "global")]
    ELSE IF entity_type = "exchange" /\ entity_id \in DOMAIN r.disabled_exchanges
    THEN [ok |-> TRUE,
          r |-> _add_alert([r EXCEPT !.disabled_exchanges = Without(@, entity_id)],
                           "FAILSAFE_DEACTIVATED", "info", entity_id)]
    ELSE [ok |-> FALSE, r |-> r]

\* a reactivation whose global branch also re-enables every pair and exchange
reactivate_failsafe_entity_sweeping(r, entity_type, entity_id) ==
    IF entity_type = "global" /\ r.halt
    THEN [ok |-> TRUE,
          r |-> _add_alert([r EXCEPT !.halt = FALSE,
                                     !.disabled_pairs = <<>>,
                                     !.disabled_exchanges = <<>>],
                           "FAILSAFE_DEACTIVATED", "info", "global")]
    ELSE reactivate_failsafe_entity_keeping_counts(r, entity_type, entity_id)

\* reactivate_failsafe_entity(entity_type, entity_id); .ok is the returned flag
reactivate_failsafe_entity(r, entity_type, entity_id) ==
    IF entity_type = "global" /\ r.halt
    THEN [ok |-> TRUE,
          r |-> _add_alert([r EXCEPT !.halt = FALSE], "FAILSAFE_DEACTIVATED", "info", "global")]
    ELSE IF entity_type = "pair" /\ entity_id \in DOMAIN r.disabled_pairs
    THEN [ok |-> TRUE,
          r |-> _add_alert([r EXCEPT !.disabled_pairs = Without(@, entity_id),
                                     !.pair_failure_counts[entity_id] = 0],
                           "FAILSAFE_DEACTIVATED", "info", "global")]
    ELSE IF entity_type = "exchange" /\ entity_id \in DOMAIN r.disabled_exchanges
    THEN [ok |-> TRUE,
          r |-> _add_alert([r EXCEPT !.disabled_exchanges = Without(@, entity_id),
                                     !.exchange_failure_counts[entity_id] = 0],
                           "FAILSAFE_DEACTIVATED", "info", entity_id)]
    ELSE [ok |-> FALSE, r |-> r]

Reactivate(entity_type, entity_id) ==
    /\ last' = [op |-> "Reactivate", arg |-> IF reactivate_failsafe_entity(Registry, entity_type, entity_id).ok THEN "ok" ELSE "fail"]
    /\ ready = <<>>
    /\ LET res == reactivate_failsafe_entity(Registry, entity_type, entity_id)
       IN /\ SetRegistry(res.r)
          /\ alerts' = res.r.alerts
    /\ orders' = <<>>
    /\ UNCHANGED <<lifecycle_vars, limit_vars, trades, test_balances, tasks, waiters,
                   ready, calls, ncalls, nfailures, now, fee_rates, stop_returned>>

\* The clock is read only to stamp a disablement, so it is advanced only while
\* an entity is disabled, and by a wait longer than the pair cooldown.
Tick ==
    /\ last' = [op |-> "Tick", arg |-> ""]
    /\ ready = <<>>
    /\ DOMAIN disabled_pairs # {} \/ DOMAIN disabled_exchanges # {}
    /\ now + FAILSAFE_COOLDOWN_MINUTES_PAIR + 1 <= MaxTime
    /\ now' = now + FAILSAFE_COOLDOWN_MINUTES_PAIR + 1
    /\ NoOutput
    /\ UNCHANGED <<lifecycle_vars, limit_vars, failsafe_vars, trades, test_balances,
                   tasks, waiters, ready, calls, ncalls, nfailures, fee_rates,
                   stop_returned>>

\* ---------------------------------------------------------- specifications
\* inputs of the lifecycle specification: one market, funded accounts
TwoSided == [e \in Exchanges |-> IF e = "binanceus" THEN Book(1000, 997, 500)
                                              ELSE Book(1005, 1002, 500)]
Funded == [quote |-> 2000000, base |-> 2000]

\* Lifecycle: the API serves requests concurrently, so start() and stop() calls
\* overlap freely with each other, with the background initialization and with
\* the Scan Loops.  The market is fixed, accounts are funded, a BUY order is
\* placed or refused, a SELL order is placed.
Next ==
    \/ \E c \in CallIds, mode \in StartArgs : Start(c, mode)
    \/ \E c \in CallIds : Stop(c)
    \/ \E c \in CallIds : ResumeCall(c)
    \/ \E t \in TaskIds : TaskCancelled(t)
    \/ \E t \in TaskIds : InitBegin(t)
    \/ \E t \in TaskIds, ok \in BOOLEAN : InitSeeded(t, ok, SeededBalances)
    \/ \E t \in TaskIds : InitResume(t)
    \/ \E t \in TaskIds : LoopIterate(t)
    \/ \E t \in TaskIds, books \in {TwoSided, NoBooks} : FetchBooks(t, books)
    \/ \E t \in TaskIds, mock \in {TwoSided} : FetchFailed(t, mock)
    \/ \E t \in TaskIds : BatchEnd(t)
    \/ \E t \in TaskIds : ExecBegin(t)
    \/ \E t \in TaskIds : ExecRecord(t)
    \/ \E t \in TaskIds, bal \in {Funded} : ExecBalances(t, bal)
    \/ \E t \in TaskIds, result \in {"ok", "none"}, value \in PortfolioValues :
          BuyResult(t, result, value)
    \/ \E t \in TaskIds, value \in PortfolioValues : SellResult(t, "ok", value)
    \/ \E entity_id \in Exchanges : Reactivate("global", entity_id)

Spec == Init /\ [][Next]_vars

\* Failsafe: one live session, started once and left running, under every market,
\* balance and order outcome, manual reactivation of every entity, and the clock.
NextFailsafe ==
    \/ Start(1, "live")
    \/ \E t \in TaskIds : LoopIterate(t)
    \/ \E t \in TaskIds, books \in BookChoices : FetchBooks(t, books)
    \/ \E t \in TaskIds, mock \in MockBookChoices : FetchFailed(t, mock)
    \/ \E t \in TaskIds : BatchEnd(t)
    \/ \E t \in TaskIds : ExecBegin(t)
    \/ \E t \in TaskIds, bal \in LiveBalances : ExecBalances(t, bal)
    \/ \E t \in TaskIds, result \in BuyOrderResults, value \in PortfolioValues :
          BuyResult(t, result, value)
    \/ \E t \in TaskIds, result \in OrderResults, value \in PortfolioValues :
          SellResult(t, result, value)
    \/ \E entity_type \in EntityTypes, entity_id \in EntityIds :
          Reactivate(entity_type, entity_id)
    \/ Tick

SpecFailsafe == Init /\ [][NextFailsafe]_vars

\* Failsafe with scheduling: the event loop runs every task that is ready, and the
\* sleeps of the Scan Loop end, so the steps the loop takes by itself (the top of
\* an iteration, starting the next execution of a batch, ending a batch) are
\* taken when they stay possible.  Exchange replies carry no such guarantee.
SpecFailsafeLive ==
    SpecFailsafe /\ WF_vars(\E t \in TaskIds : LoopIterate(t) \/ BatchEnd(t) \/ ExecBegin(t))

\* Scan: one live session over three exchanges, under every market of ThreeBooks;
\* executions are sized from funded or thin balances and their orders are placed.
NextScan ==
    \/ Start(1, "live")
    \/ \E t \in TaskIds : LoopIterate(t)
    \/ \E t \in TaskIds, books \in ThreeBooks : FetchBooksAmong(t, books)
    \/ \E t \in TaskIds : BatchEnd(t)
    \/ \E t \in TaskIds : ExecBegin(t)
    \/ \E t \in TaskIds, bal \in LiveBalances : ExecBalances(t, bal)
    \/ \E t \in TaskIds, value \in PortfolioValues : BuyResult(t, "ok", value)
    \/ \E t \in TaskIds, value \in PortfolioValues : SellResult(t, "ok", value)

SpecScan == Init /\ [][NextScan]_vars

\* Ledger: one test session, started once, under every seeded ledger, market and
\* taker fee the exchanges report.
NextLedger ==
    \/ Start(1, "test")
    \/ \E exchange_id \in Exchanges, taker \in TakerFees : connect_exchange(exchange_id, taker)
    \/ \E t \in TaskIds : InitBegin(t)
    \/ \E t \in TaskIds, ok \in BOOLEAN, seed \in TestSeeds : InitSeeded(t, ok, seed)
    \/ \E t \in TaskIds : LoopIterate(t)
    \/ \E t \in TaskIds, books \in BookChoices : FetchBooks(t, books)
    \/ \E t \in TaskIds, mock \in MockBookChoices : FetchFailed(t, mock)
    \/ \E t \in TaskIds : BatchEnd(t)
    \/ \E t \in TaskIds : ExecBegin(t)
    \/ \E t \in TaskIds : ExecRecord(t)

SpecLedger == Init /\ [][NextLedger]_vars

\* Initialization: one test session whose ledger is the one
\* _initialize_test_balances builds, with or without connected exchanges and
\* with or without a usable ticker.
NextInit ==
    \/ Start(1, "test")
    \/ \E exchange_id \in Exchanges, taker \in TakerFees : connect_exchange(exchange_id, taker)
    \/ \E t \in TaskIds : InitBegin(t)
    \/ \E t \in TaskIds, ok \in BOOLEAN, seed \in InitializedLedgers : InitSeeded(t, ok, seed)
    \/ \E t \in TaskIds : LoopIterate(t)
    \/ \E t \in TaskIds, books \in BookChoices : FetchBooks(t, books)
    \/ \E t \in TaskIds, mock \in MockBookChoices : FetchFailed(t, mock)
    \/ \E t \in TaskIds : BatchEnd(t)
    \/ \E t \in TaskIds : ExecBegin(t)
    \/ \E t \in TaskIds : ExecRecord(t)

SpecInit == Init /\ [][NextInit]_vars

\* Fetch: one live session whose order books come through fetch_order_book, under
\* every pattern of failing attempts, connected or not, for each retry limit.
NextFetch ==
    \/ Start(1, "live")
    \/ \E t \in TaskIds : LoopIterate(t)
    \/ \E t \in TaskIds, connected \in [Exchanges -> BOOLEAN],
          outcomes \in [Exchanges -> AttemptOutcomes], max_retries \in RetryLimits :
          FetchRetried(t, connected, outcomes, max_retries)
    \/ \E t \in TaskIds : BatchEnd(t)
    \/ \E t \in TaskIds : ExecBegin(t)
    \/ \E t \in TaskIds, bal \in LiveBalances : ExecBalances(t, bal)
    \/ \E t \in TaskIds, value \in PortfolioValues : BuyResult(t, "ok", value)
    \/ \E t \in TaskIds, value \in PortfolioValues : SellResult(t, "ok", value)

SpecFetch == Init /\ [][NextFetch]_vars

\* High-water mark: one live session in which several executions settle at
\* different portfolio values and orders fail in between.
NextHigh ==
    \/ Start(1, "live")
    \/ \E t \in TaskIds : LoopIterate(t)
    \/ \E t \in TaskIds, books \in BookChoices : FetchBooks(t, books)
    \/ \E t \in TaskIds : BatchEnd(t)
    \/ \E t \in TaskIds : ExecBegin(t)
    \/ \E t \in TaskIds, bal \in LiveBalances : ExecBalances(t, bal)
    \/ \E t \in TaskIds, result \in BuyOrderResults, value \in PortfolioValues :
          BuyResult(t, result, value)
    \/ \E t \in TaskIds, result \in OrderResults \ {"ok"}, value \in PortfolioValues :
          SellResult(t, result, value)
    \/ \E t \in TaskIds, value \in PortfolioValues : SellSettled(t, value)
    \/ Reactivate("global", "global")

SpecHigh == Init /\ [][NextHigh]_vars

\* ------------------------------------------------------------- properties
HasCritical(as) == \E i \in 1..Len(as) : as[i].severity = "critical"
ExecutionSteps == {"ExecBegin", "ExecRecord", "ExecBalances", "BuyResult", "SellResult"}
LoopTasks == {t \in TaskIds : tasks[t].kind = "loop"}

\* C1: in live mode, when the BUY leg is filled and the SELL order then fails, the
\* execution raises a critical alert, counts a failure for both legs and sets the
\* global halt before it returns.
C1_SellFailureHalts ==
    [][(last'.op = "SellResult" /\ last'.arg = "none")
        => /\ HasCritical(alerts')
           /\ global_trading_halt'
           /\ \A e \in Exchanges : exchange_failure_counts'[e] = exchange_failure_counts[e] + 1]_vars

\* C2: while the global halt is set no step submits an order, changes the virtual
\* ledger or records an execution.
C2_NoExecutionWhileHalted ==
    [][(global_trading_halt /\ last'.op \in ExecutionSteps)
        => orders' = <<>> /\ test_balances' = test_balances /\ trades' = trades]_vars

\* C3: once set, the global halt stays set through every iteration and every
\* stop() / start(); only reactivate_failsafe_entity("global") clears it.
C3_HaltClearedOnlyByReactivation ==
    [][(global_trading_halt /\ ~global_trading_halt')
        => (last'.op = "Reactivate" /\ last'.arg = "ok")]_vars

\* C3 witness: the halt was set in live mode and is still set while a Scan Loop
\* started by a later start("test") sleeps on it.
C3_HaltSurvivesRestart ==
    /\ global_trading_halt
    /\ current_mode = "test_simulating"
    /\ \E t \in LoopTasks : tasks[t].pc = "halt_sleep" /\ last.op = "LoopIterate"

\* C4: after stop() has returned, and until a later start(), no Scan Loop begins an
\* iteration, scans or executes.
C4_QuietAfterStop ==
    [][stop_returned
        => last'.op \notin {"LoopIterate", "FetchBooks", "FetchFailed", "ExecBegin",
                            "ExecRecord", "ExecBalances", "BuyResult", "SellResult"}
           \/ (last'.op = "LoopIterate" /\ \E t \in LoopTasks : ~IsDone(t) /\ tasks'[t].pc = "done")]_vars

\* C5: at most one Scan Loop task is active at any time.
C5_SingleScanLoop == Cardinality({t \in ActiveLoops : ~tasks[t].must_cancel}) <= 1

\* the Scan Loop task whose step moved it from pc `from` to pc `to`
Moved(t, from, to) == tasks[t].kind = "loop" /\ tasks[t].pc = from /\ tasks'[t].pc = to

\* C6: in live mode, when the BUY order cannot be placed the execution stops
\* there: no SELL order, the (buy exchange, pair) counter grows by exactly 1, no
\* execution is recorded and no critical alert is raised.
C6_BuyFailureAborts ==
    [][\A t \in TaskIds :
          (last'.op = "BuyResult" /\ last'.arg = "none" /\ Moved(t, "exec_buy", "batch"))
          => LET opp == tasks[t].ex.opp
                 k == PairKey(opp.buy_exchange, opp.pair)
             IN /\ orders' = <<>>
                /\ trades' = trades
                /\ pair_failure_counts'[k] = pair_failure_counts[k] + 1
                /\ ~HasCritical(alerts')]_vars

NotDisabled(entity_type, entity_id) ==
    CASE entity_type = "global" -> ~global_trading_halt
      [] entity_type = "pair" -> entity_id \notin DOMAIN disabled_pairs
      [] entity_type = "exchange" -> entity_id \notin DOMAIN disabled_exchanges

\* C7: reactivate_failsafe_entity on an entity that is not disabled returns failure
\* and leaves the registry unchanged: halt flag, disabled pairs, disabled exchanges
\* and every failure counter.
C7_ReactivateNotDisabledIsNoOp ==
    /\ [](\A entity_type \in EntityTypes, entity_id \in EntityIds :
             NotDisabled(entity_type, entity_id)
             => reactivate_failsafe_entity(Registry, entity_type, entity_id)
                    = [ok |-> FALSE, r |-> Registry])
    /\ [][(last'.op = "Reactivate" /\ last'.arg = "fail") => UNCHANGED failsafe_vars]_vars

\* C7 witness: a reactivation failed while failures were counted and a pair was
\* disabled, so there was registry state to lose.
C7_FailedReactivation ==
    /\ last = [op |-> "Reactivate", arg |-> "fail"]
    /\ DOMAIN disabled_pairs # {}
    /\ \E e \in Exchanges : exchange_failure_counts[e] > 0 /\ e \notin DOMAIN disabled_exchanges

\* the opportunities a scan step hands to the batch
Emitted(t) == {tasks'[t].opps[i] : i \in 1..Len(tasks'[t].opps)}
ScanStep(t) == last'.op \in {"FetchBooks", "FetchFailed"} /\ Moved(t, "fetch", "batch")

\* C8: while a pair is disabled in the registry, a scan emits no opportunity for
\* that pair on any exchange combination.
C8_NoOpportunityForDisabledPair ==
    [][\A t \in TaskIds : ScanStep(t)
          => \A o \in Emitted(t) :
                /\ o.pair \notin DOMAIN disabled_pairs
                /\ PairKey(o.buy_exchange, o.pair) \notin DOMAIN disabled_pairs
                /\ PairKey(o.sell_exchange, o.pair) \notin DOMAIN disabled_pairs]_vars

\* C9: a scan never emits an opportunity whose buy or sell exchange is disabled.
C9_NoOpportunityOnDisabledExchange ==
    [][\A t \in TaskIds : ScanStep(t)
          => \A o \in Emitted(t) :
                /\ o.buy_exchange \notin DOMAIN disabled_exchanges
                /\ o.sell_exchange \notin DOMAIN disabled_exchanges]_vars

\* C9 witness: books of both exchanges were scanned while an exchange was
\* disabled, and the scan emitted nothing.
C9_ScanWithDisabledExchange ==
    /\ last = [op |-> "FetchBooks", arg |-> "both"]
    /\ DOMAIN disabled_exchanges # {}
    /\ \E t \in LoopTasks : tasks[t].pc = "batch" /\ tasks[t].opps = <<>>

\* C10: after a Scan Loop iteration no disabled pair or exchange is past its
\* cooldown: expired entries have been re-enabled.
C10_NoExpiredEntryAfterIteration ==
    [][last'.op = "BatchEnd"
        => /\ \A k \in DOMAIN disabled_pairs' :
                 disabled_pairs'[k] + FAILSAFE_COOLDOWN_MINUTES_PAIR >= now'
           /\ \A e \in DOMAIN disabled_exchanges' :
                 disabled_exchanges'[e] + FAILSAFE_COOLDOWN_MINUTES_EXCHANGE >= now']_vars

\* C11: reactivate_failsafe_entity on a pair or exchange that is disabled
\* succeeds, removes it from the disabled set (so the scanner's disabled test no
\* longer excludes it) and resets that entity's failure counter to 0.
C11_ReactivateDisabledEntity ==
    /\ [](\A entity_id \in DOMAIN disabled_pairs :
             LET res == reactivate_failsafe_entity(Registry, "pair", entity_id)
             IN /\ res.ok
                /\ ~_is_pair_disabled_in(res.r, entity_id)
                /\ res.r.pair_failure_counts[entity_id] = 0)
    /\ [](\A entity_id \in DOMAIN disabled_exchanges :
             LET res == reactivate_failsafe_entity(Registry, "exchange", entity_id)
             IN /\ res.ok
                /\ ~_is_exchange_disabled_in(res.r, entity_id)
                /\ res.r.exchange_failure_counts[entity_id] = 0)
    /\ [][(last'.op = "Reactivate" /\ last'.arg = "ok" /\ ~global_trading_halt)
            => \/ \E k \in DOMAIN disabled_pairs :
                     k \notin DOMAIN disabled_pairs' /\ pair_failure_counts'[k] = 0
               \/ \E e \in DOMAIN disabled_exchanges :
                     e \notin DOMAIN disabled_exchanges' /\ exchange_failure_counts'[e] = 0]_vars

\* C11 witness: a pair key disabled by repeated failures has just been
\* reactivated (no halt was ever raised): it is enabled again and its counter
\* is back to 0 while its exchange still counts the failures.
C11_PairReactivated ==
    /\ last = [op |-> "Reactivate", arg |-> "ok"]
    /\ historical_high_balance_usdt = 0
    /\ \E e \in Exchanges :
          /\ PairKey(e, "BTC/USDT") \notin DOMAIN disabled_pairs
          /\ pair_failure_counts[PairKey(e, "BTC/USDT")] = 0
          /\ exchange_failure_counts[e] >= FAILSAFE_MAX_FAILURES_PER_PAIR_WINDOW

\* self.is_test_mode
is_test_mode == current_mode \in {"test_simulating", "test_idle"}

\* C12: while the bot is in test mode no step of an execution submits an order
\* to an exchange; simulated trades settle against the virtual ledger only.
C12_NoOrderInTestMode ==
    [][is_test_mode => orders' = <<>>]_vars

\* the step of _execute_arbitrage that fixes the trade size of task t
Sized(t) == tasks[t].ex.amount = 0 /\ tasks'[t].ex.amount > 0

C14_LedgerNonNegative ==
    \A e \in DOMAIN test_balances : \A c \in DOMAIN test_balances[e] :
        test_balances[e][c] >= 0

\* change of the ledger balance of currency c on exchange e in a step
Delta(e, c) == test_balances'[e][c] - test_balances[e][c]

\* C15 as stated: in test mode the ledger deltas of one completed execution, over
\* its four legs, sum to minus the fees paid on the two legs, and the base deltas
\* of the two exchanges cancel.
C15_DeltasSumToFees ==
    [][\A t \in TaskIds :
         Sized(t) /\ tasks'[t].ex.is_test =>
             LET opp == tasks'[t].ex.opp
                 amount == tasks'[t].ex.amount
                 b == opp.buy_exchange
                 s == opp.sell_exchange
             IN /\ Delta(b, "BTC") + Delta(s, "BTC") = 0
                /\ Delta(b, "USDT") + Delta(b, "BTC") + Delta(s, "BTC") + Delta(s, "USDT")
                      = 0 - (buy_fee_cost(opp, amount) + sell_fee_cost(opp, amount))]_vars

\* C15 amended: in test mode the base deltas of the two exchanges cancel, and the
\* quote deltas of one completed execution sum to the sale proceeds minus the
\* purchase cost, both after slippage, minus the fees paid on the two legs.
C15_DeltasSumToProfitLessFees ==
    [][\A t \in TaskIds :
         Sized(t) /\ tasks'[t].ex.is_test =>
             LET opp == tasks'[t].ex.opp
                 amount == tasks'[t].ex.amount
                 b == opp.buy_exchange
                 s == opp.sell_exchange
             IN /\ Delta(b, "BTC") = amount /\ Delta(s, "BTC") = 0 - amount
                /\ Delta(b, "USDT") + Delta(s, "USDT")
                      = proceeds_with_slippage(opp, amount) - cost_with_slippage(opp, amount)
                        - (buy_fee_cost(opp, amount) + sell_fee_cost(opp, amount))
                /\ \A e \in Exchanges \ {b, s} : Delta(e, "BTC") = 0 /\ Delta(e, "USDT") = 0]_vars

\* C15 witness: a simulated execution has moved the ledger off its seed and paid
\* a fee on each leg
C15_SimulatedFillApplied ==
    \E t \in TaskIds :
        /\ tasks[t].pc = "exec_record" /\ tasks[t].ex.is_test
        /\ test_balances \notin TestSeeds
        /\ buy_fee_cost(tasks[t].ex.opp, tasks[t].ex.amount) > 0
        /\ sell_fee_cost(tasks[t].ex.opp, tasks[t].ex.amount) > 0

\* C16: the SELL order of an execution is placed for exactly the base amount the
\* BUY order filled, so both legs carry the same base amount.
C16_SellMatchesFilledBuy ==
    [][\A t \in TaskIds :
         Moved(t, "exec_buy", "exec_sell") =>
             /\ orders' # <<>>
             /\ orders'[1].side = "sell"
             /\ orders'[1].amount = filled(last'.arg, tasks[t].ex.amount)]_vars

\* C17: the Scanner emits an opportunity for an ordered exchange pair only when the
\* spread between the sell exchange's best bid and the buy exchange's best ask
\* exceeds the cost of the two legs (fees, slippage and buffer), never when it
\* does not.
C17_EmittedOnlyAboveCost ==
    [][\A t \in TaskIds : ScanStep(t)
          => \A o \in Emitted(t) :
                ProfitAbove(o.buy_price, o.sell_price,
                            total_cost_percentage(o.buy_exchange, o.sell_exchange))]_vars

\* the opportunities a scan of `books` emits in test mode, as a set
Scanned(books) ==
    LET opps == _find_opportunities(books, TRUE) IN {opps[i] : i \in 1..Len(opps)}

\* C18: for fixed best bid and ask, the profit percentage the Scanner attaches to
\* an opportunity strictly decreases when a fee of one of its legs increases.
C18_ProfitDecreasesWithFees ==
    [][(\E e \in Exchanges : fee_rates'[e] > fee_rates[e])
         => \A books \in MockBookChoices :
               \A before \in Scanned(books), after \in Scanned(books)' :
                   (before.buy_exchange = after.buy_exchange
                    /\ before.sell_exchange = after.sell_exchange)
                   => after.potential_profit_percentage < before.potential_profit_percentage]_vars

\* the step that records the trade of task t
Settled(t) == Len(trades') = Len(trades) + 1 /\ tasks[t].ex.amount > 0 /\ tasks'[t].ex = NoExec

\* the largest gap, in basis points, between the realized and the estimated
\* profit percentage that settlement tolerates
PROFIT_MISMATCH_TOLERANCE == 50

\* realized profit percentage of the recorded trade against the opportunity's estimate
Mismatch(t) ==
    LET d == Head(trades').profit_percentage - tasks[t].ex.opp.potential_profit_percentage
    IN IF d < 0 THEN 0 - d ELSE d

\* C19: when a trade is settled and its realized profit percentage differs from
\* the opportunity's estimate by more than 0.5 percentage points, the pair is
\* disabled; within the tolerance nothing is disabled.
C19_MismatchDisablesPair ==
    [][\A t \in TaskIds :
         Settled(t) =>
             LET opp == tasks[t].ex.opp
             IN IF Mismatch(t) > PROFIT_MISMATCH_TOLERANCE
                THEN \/ opp.pair \in DOMAIN disabled_pairs'
                     \/ PairKey(opp.buy_exchange, opp.pair) \in DOMAIN disabled_pairs'
                     \/ PairKey(opp.sell_exchange, opp.pair) \in DOMAIN disabled_pairs'
                ELSE disabled_pairs' = disabled_pairs]_vars

\* C20: a start() call whose test-ledger initialization fails reports failure, and
\* the bot does not reach a running state from that call: running stays false
\* and no Scan Loop is launched.
C20_FailedInitializationReported ==
    (last.op = "InitSeeded" /\ last.arg = "fail")
        => /\ \A c \in CallIds : calls[c].op = "start" => calls[c].result = "fail"
           /\ ~running
           /\ ActiveLoops = {}

\* the step in which call c returns
Returns(c) == calls[c].pc # "done" /\ calls'[c].pc = "done"
\* the step in which task t is created as a Scan Loop
Launched(t) == tasks[t].kind # "loop" /\ tasks'[t].kind = "loop"
ScanOrExecution == {"FetchBooks", "FetchFailed"} \cup ExecutionSteps

\* C21: start('test', settings) does not wait for the ledger: it returns with the
\* mode test_initializing, the bot not running and the seeding still ahead; a
\* Scan Loop is launched in test mode only by the initialization, once the ledger
\* is seeded, and nothing is scanned or executed while the mode is
\* test_initializing.
C21_TestStartDoesNotBlock ==
    /\ [][\A c \in CallIds :
            (Returns(c) /\ calls'[c].op = "start" /\ calls'[c].arg = "test"
                        /\ calls'[c].result = "ok")
            => /\ current_mode' = "test_initializing"
               /\ ~running'
               /\ test_initialization_task' # None
               /\ tasks'[test_initialization_task'].pc = "start"]_vars
    /\ [][\A t \in TaskIds :
            (Launched(t) /\ last'.op \in {"InitSeeded", "InitResume"})
            => /\ current_mode' = "test_simulating"
               /\ running'
               /\ test_balances' # NoBalances]_vars
    /\ [][current_mode = "test_initializing" => last'.op \notin ScanOrExecution]_vars

\* the alerts of the step just taken hold one of the given type
Alerted(type) == \E i \in 1..Len(alerts') : alerts'[i].type = type
AlertedAs(type, severity) ==
    \E i \in 1..Len(alerts') : alerts'[i].type = type /\ alerts'[i].severity = severity

C23_StopCancelsInitialization ==
    [][(stop_returned /\ stop_returned' /\ current_mode = "test_initializing")
         => /\ current_mode' # "test_simulating"
            /\ ~running'
            /\ \A t \in TaskIds : ~Launched(t)]_vars

TestModes == {"test_initializing", "test_simulating", "test_idle"}

\* C24: under every interleaving of start(), stop() and the background
\* initialization, running implies that the mode is live or test_simulating; no
\* step submits an order while the mode it leaves the bot in is a test mode; and
\* an initialization task that finishes while the mode is live leaves it live.
C24_ModeAgreesWithLoop ==
    /\ [](running => current_mode \in {"live", "test_simulating"})
    /\ [][current_mode' \in TestModes => orders' = <<>>]_vars
    /\ [][(current_mode = "live" /\ last'.op \in {"InitSeeded", "InitResume"})
            => current_mode' = "live"]_vars

\* some failure counter has grown in the step
FailureCounted ==
    \/ \E k \in PairKeys : pair_failure_counts'[k] > pair_failure_counts[k]
    \/ \E e \in Exchanges : exchange_failure_counts'[e] > exchange_failure_counts[e]

\* C25: in live mode, an execution whose BUY order has been placed always ends in
\* a recorded execution or in a failure alert together with a failure-counter
\* increment, even when stop() cancels the Scan Loop between the two orders.
C25_NoSilentAbandon ==
    [][\A t \in TaskIds :
         (tasks[t].kind = "loop" /\ tasks[t].pc = "exec_sell" /\ tasks'[t].pc # "exec_sell")
         => \/ Len(trades') = Len(trades) + 1
            \/ Alerted("TRADE_FAILURE") /\ FailureCounted]_vars

\* C26: the settlement of a live execution tracks the historical high of the
\* portfolio value and, when the current value has dropped from that high by
\* more than the configured percentage, leaves the global halt set.
C26_DrawdownHaltsAtSettlement ==
    \A t \in TaskIds, value \in PortfolioValues :
        (tasks[t].kind = "loop" /\ tasks[t].pc = "exec_sell" /\ current_mode = "live")
        => LET r == SettledRegistry(Registry, FALSE, value)
           IN /\ r.high >= value /\ r.high >= historical_high_balance_usdt
              /\ LossExceeds(r.high, value) => r.halt

\* C27: when the handling of a failed order has completed, every pair and every
\* exchange whose failure counter has reached its threshold is disabled, also
\* when the same failure set the global halt; the threshold of pairs is below
\* the threshold of exchanges.
C27_ThresholdDisables ==
    /\ [](FAILSAFE_MAX_FAILURES_PER_PAIR_WINDOW < FAILSAFE_MAX_FAILURES_PER_EXCHANGE_WINDOW)
    /\ [][nfailures' > nfailures
            => /\ \A k \in PairKeys :
                     pair_failure_counts'[k] >= FAILSAFE_MAX_FAILURES_PER_PAIR_WINDOW
                     => k \in DOMAIN disabled_pairs'
               /\ \A e \in Exchanges :
                     exchange_failure_counts'[e] >= FAILSAFE_MAX_FAILURES_PER_EXCHANGE_WINDOW
                     => e \in DOMAIN disabled_exchanges']_vars

\* C28: a settled execution resets to 0 the failure counters of its pair on both
\* exchanges and of both exchanges.
C28_SuccessResetsCounters ==
    [][\A t \in TaskIds :
         Settled(t) =>
             LET opp == tasks[t].ex.opp
             IN /\ pair_failure_counts'[PairKey(opp.buy_exchange, opp.pair)] = 0
                /\ pair_failure_counts'[PairKey(opp.sell_exchange, opp.pair)] = 0
                /\ exchange_failure_counts'[opp.buy_exchange] = 0
                /\ exchange_failure_counts'[opp.sell_exchange] = 0]_vars

Submitted(side) == \E i \in 1..Len(orders') : orders'[i].side = side

\* C29: orders are never resubmitted: a step submits at most one order, a BUY order
\* only when an execution leaves its balance fetch and a SELL order only when it
\* leaves its BUY leg, and an execution never goes back to an earlier leg, so
\* one execution submits at most one BUY and at most one SELL (within the two
\* SELL submissions allowed).
C29_NoOrderRetry ==
    [][/\ Len(orders') <= 1
       /\ Submitted("buy") => \E t \in TaskIds : Moved(t, "exec_bal", "exec_buy")
       /\ Submitted("sell") => \E t \in TaskIds : Moved(t, "exec_buy", "exec_sell")
       /\ \A t \in TaskIds :
              /\ Moved(t, "exec_buy", tasks'[t].pc) => tasks'[t].pc # "exec_bal"
              /\ Moved(t, "exec_sell", tasks'[t].pc) => tasks'[t].pc \notin {"exec_bal", "exec_buy"}
              /\ tasks'[t].pc = "exec_bal" /\ tasks[t].pc # "exec_bal" => tasks[t].pc = "batch"]_vars

\* an execution whose BUY order failed has gone back to the batch with nothing
\* submitted again
C29_FailedLegNotResubmitted ==
    /\ last.op = "BuyResult" /\ last.arg = "none"
    /\ orders = <<>>
    /\ \E t \in TaskIds : tasks[t].kind = "loop" /\ tasks[t].pc = "batch"

NoPenalty ==
    /\ orders' = <<>> /\ alerts' = <<>>
    /\ UNCHANGED <<pair_failure_counts, exchange_failure_counts, disabled_pairs,
                   disabled_exchanges, global_trading_halt, test_balances, trades>>

\* the execution of task t's next opportunity starts in test mode with a trade
\* value below the minimum notional
BelowMinimumTest(t) ==
    /\ last'.op = "ExecBegin" /\ tasks'[t] # tasks[t]
    /\ is_actively_simulating_test_mode
    /\ LET opp == Head(tasks[t].opps)
       IN buy_leg_quote_value(opp, Free(test_balances, opp.buy_exchange, "USDT"),
                              Free(test_balances, opp.sell_exchange, "BTC"))
          < min_trade_amount_quote

\* C30: an execution whose trade value, derived from the balances at call time,
\* is below the minimum notional ends with no order, no alert, no failure counter
\* or disabled entity changed, no ledger balance changed and no execution
\* recorded; every BUY order that is submitted has at least the minimum notional.
C30_BelowMinimumAbortsFree ==
    /\ [](\A t \in TaskIds, bal \in LiveBalances :
             (tasks[t].kind = "loop" /\ tasks[t].pc = "exec_bal"
              /\ buy_leg_quote_value(tasks[t].ex.opp, bal.quote, bal.base) < min_trade_amount_quote)
             => TradeSize(tasks[t].ex.opp, bal.quote, bal.base) = 0)
    /\ [][\A t \in TaskIds :
             /\ BelowMinimumTest(t) => NoPenalty /\ tasks'[t].pc = "batch" /\ tasks'[t].ex = NoExec
             /\ (last'.op = "ExecBalances" /\ tasks'[t] # tasks[t]) =>
                    \/ NoPenalty /\ tasks'[t].pc = "batch" /\ tasks'[t].ex = NoExec
                    \/ /\ Len(orders') = 1 /\ orders'[1].side = "buy"
                       /\ orders'[1].amount * orders'[1].price >= min_trade_amount_quote]_vars

\* a test-mode execution has just ended at its sizing step: the opportunity is
\* dropped and the loop is back in its batch
C30_TestSkipped ==
    /\ last.op = "ExecBegin" /\ is_actively_simulating_test_mode
    /\ \E t \in TaskIds : tasks[t].kind = "loop" /\ tasks[t].pc = "batch" /\ tasks[t].ex = NoExec

Reactivated == last.op = "Reactivate" /\ last.arg = "ok" /\ ~global_trading_halt /\ running
ScanningOrExecuting ==
    \E t \in TaskIds : tasks[t].kind = "loop" /\ tasks[t].pc \in {"fetch", "exec_bal", "exec_buy", "exec_sell"}

\* C31: an iteration that finds the halt set goes into (or stays in) the halt
\* sleep and submits, fills and records nothing, and while the halt is set no
\* execution starts; once a reactivation has left the running bot without a halt,
\* the loop eventually fetches order books again or is in an execution.
C31_HaltedLoopResumes ==
    /\ [][\A t \in TaskIds :
             /\ (last'.op = "LoopIterate" /\ tasks'[t] # tasks[t] /\ global_trading_halt /\ running)
                => /\ tasks'[t].pc = "halt_sleep"
                   /\ orders' = <<>> /\ trades' = trades /\ test_balances' = test_balances
             /\ (global_trading_halt /\ last'.op = "ExecBegin") => tasks'[t] = tasks[t]]_vars
    /\ Reactivated ~> ScanningOrExecuting

\* the halt has just been lifted under a loop that is in its halt sleep
C31_LiftedDuringHaltSleep ==
    /\ Reactivated
    /\ \E t \in TaskIds : tasks[t].kind = "loop" /\ tasks[t].pc = "halt_sleep"

\* the step is a failed read or a failed order of the loop task t
FailureStep(t) ==
    /\ tasks[t].kind = "loop" /\ tasks'[t] # tasks[t]
    /\ \/ last'.op = "FetchFailed"
       \/ last'.op = "FetchBooks" /\ last'.arg \in {"none", "partial"}
       \/ last'.op \in {"BuyResult", "SellResult"} /\ last'.arg \in {"none", "raise"}
Ended(t) == tasks[t].kind = "loop" /\ tasks[t].pc # "done" /\ tasks'[t].pc = "done"

NetProfitAbove(a, b) ==
    ((a.sell_price - a.buy_price) * 10000
        - configured_cost_percentage(a.buy_exchange, a.sell_exchange) * a.buy_price) * b.buy_price
    > ((b.sell_price - b.buy_price) * 10000
        - configured_cost_percentage(b.buy_exchange, b.sell_exchange) * b.buy_price) * a.buy_price

\* C33: the opportunities a scan hands to the loop are in descending order of
\* spread minus cost, and each execution of the batch takes the first of those
\* that remain.
C33_SortedByNetProfit ==
    /\ [](\A t \in TaskIds : \A i, j \in 1..Len(tasks[t].opps) :
             i < j => ~NetProfitAbove(tasks[t].opps[j], tasks[t].opps[i]))
    /\ [][\A t \in TaskIds :
             (last'.op = "ExecBegin" /\ tasks'[t] # tasks[t])
             => /\ tasks'[t].opps = Tail(tasks[t].opps)
                /\ tasks'[t].pc = "batch" \/ tasks'[t].ex.opp = Head(tasks[t].opps)]_vars

\* C34: while a fetch is under way no queried exchange is in the disabled set, and
\* no fetch returns the snapshots of all exchanges while one of them is disabled.
C34_DisabledExchangeNotQueried ==
    /\ [](\A t \in TaskIds :
             (tasks[t].kind = "loop" /\ tasks[t].pc = "fetch")
             => QueriedExchanges \cap DOMAIN disabled_exchanges = {})
    /\ [][(last'.op = "FetchBooks" /\ last'.arg = "both")
             => DOMAIN disabled_exchanges = {}]_vars

\* C35: no opportunity a scan emits buys or sells on an exchange whose snapshot
\* was older than the staleness threshold.
C35_NoOpportunityFromStaleSnapshot ==
    [][last'.op = "FetchBooksAmong"
        => \A t \in TaskIds : \A i \in 1..Len(tasks'[t].opps) :
              /\ tasks'[t].opps[i].buy_exchange \notin last'.arg
              /\ tasks'[t].opps[i].sell_exchange \notin last'.arg]_vars

\* C36: a running live session has the configured minimum-profit threshold and
\* minimum trade notional.
C36_LiveLimitsAsConfigured ==
    (running /\ current_mode = "live")
    => /\ min_profit_percentage_threshold = MIN_PROFIT_PERCENTAGE_THRESHOLD
       /\ min_trade_amount_quote = MIN_TRADE_AMOUNT_QUOTE

\* the prices a base balance may be seeded from: a live price or the default one
SeedPrices == (TickerPrices \ {0}) \cup {DEFAULT_BTC_PRICE}

\* C37: after a successful initialization every exchange holds the USDT capital
\* and a base balance of the asset capital divided by a live or the default
\* price, so never zero.
C37_SeededFromLiveOrDefaultPrice ==
    [][(last'.op = "InitSeeded" /\ last'.arg = "ok")
        => \A e \in Exchanges :
              /\ test_balances'[e].USDT = UsdtCapitalPerExchange
              /\ test_balances'[e].BTC \in {AssetCapitalUsdPerPair \div p : p \in SeedPrices}
              /\ test_balances'[e].BTC > 0]_vars

\* the attempts among the first max_retries + 1 that succeed
SuccessfulAttempts(outcomes, max_retries) ==
    {i \in 1..(max_retries + 1) : outcomes[i] = "ok"}
Doubling(backoffs) ==
    /\ backoffs # <<>> => backoffs[1] = 1
    /\ \A i \in 1..(Len(backoffs) - 1) : backoffs[i + 1] = 2 * backoffs[i]

\* C38: every fetch_order_book call makes at most max_retries + 1 attempts; it
\* returns the book of the first attempt that succeeds, having made exactly that
\* many attempts; it returns None when the exchange is not connected (no attempt)
\* or when all max_retries + 1 attempts fail; it waits once between consecutive
\* attempts, each wait twice the one before.
C38_BoundedRetries ==
    [][last'.op = "FetchRetried"
        => \A e \in Exchanges :
              LET a == last'.arg
                  ret == a.ret[e]
                  ok == SuccessfulAttempts(a.outcomes[e], a.max_retries)
              IN /\ ret.calls <= a.max_retries + 1
                 /\ ~a.connected[e] => ret.snapshot = NoSnapshot /\ ret.calls = 0
                 /\ (a.connected[e] /\ ok = {})
                       => ret.snapshot = NoSnapshot /\ ret.calls = a.max_retries + 1
                 /\ (a.connected[e] /\ ok # {})
                       => /\ ret.snapshot \in ok /\ ret.calls = ret.snapshot
                          /\ \A i \in ok : ret.snapshot <= i
                 /\ a.connected[e] => Len(ret.backoffs) = ret.calls - 1
                 /\ Doubling(ret.backoffs)]_vars

\* one fetch succeeded on its last allowed attempt after three waits and another
\* gave up after all its attempts
C38_RetriedAndExhausted ==
    /\ last.op = "FetchRetried"
    /\ \E e, f \in Exchanges :
          /\ last.arg.ret[e].snapshot = 4 /\ last.arg.ret[e].backoffs = <<1, 2, 4>>
          /\ last.arg.connected[f] /\ last.arg.ret[f].snapshot = NoSnapshot
          /\ last.arg.ret[f].calls = 4

\* what reactivate_failsafe_entity leaves alone, per entity type: the halt flag,
\* the disabled entries and the failure counters other than the named entity's
SameExcept(f, g, k) ==
    /\ DOMAIN g = DOMAIN f \ {k}
    /\ \A x \in DOMAIN g : g[x] = f[x]
SameCountsExcept(f, g, k) ==
    /\ DOMAIN g = DOMAIN f
    /\ \A x \in DOMAIN f \ {k} : g[x] = f[x]
ReactivationFrame(r, q, entity_type, entity_id) ==
    /\ q.high = r.high
    /\ entity_type = "global"
          => /\ q.disabled_pairs = r.disabled_pairs
             /\ q.disabled_exchanges = r.disabled_exchanges
             /\ q.pair_failure_counts = r.pair_failure_counts
             /\ q.exchange_failure_counts = r.exchange_failure_counts
    /\ entity_type = "pair"
          => /\ q.halt = r.halt
             /\ SameExcept(r.disabled_pairs, q.disabled_pairs, entity_id)
             /\ SameCountsExcept(r.pair_failure_counts, q.pair_failure_counts, entity_id)
             /\ q.disabled_exchanges = r.disabled_exchanges
             /\ q.exchange_failure_counts = r.exchange_failure_counts
    /\ entity_type = "exchange"
          => /\ q.halt = r.halt
             /\ SameExcept(r.disabled_exchanges, q.disabled_exchanges, entity_id)
             /\ SameCountsExcept(r.exchange_failure_counts, q.exchange_failure_counts,
                                 entity_id)
             /\ q.disabled_pairs = r.disabled_pairs
             /\ q.pair_failure_counts = r.pair_failure_counts

\* C39: reactivation changes only the entity it names.  reactivate("global")
\* leaves the disabled pairs, the disabled exchanges and every failure counter
\* unchanged; reactivating one pair or one exchange leaves the global halt flag
\* and every other entity's disabled entry and failure counter unchanged.  Both
\* for the function on every reachable registry and for every Reactivate step.
C39_ReactivationFrame ==
    /\ [](\A entity_type \in EntityTypes, entity_id \in EntityIds :
             LET res == reactivate_failsafe_entity(Registry, entity_type, entity_id)
             IN /\ res.ok => ReactivationFrame(Registry, res.r, entity_type, entity_id)
                /\ ~res.ok => res.r = Registry)
    /\ [][last'.op = "Reactivate"
            => \/ /\ global_trading_halt' # global_trading_halt
                  /\ UNCHANGED <<disabled_pairs, disabled_exchanges, pair_failure_counts,
                                 exchange_failure_counts, historical_high_balance_usdt>>
               \/ /\ UNCHANGED <<global_trading_halt, disabled_exchanges,
                                 exchange_failure_counts, historical_high_balance_usdt>>
                  /\ \E k \in DOMAIN disabled_pairs :
                        /\ SameExcept(disabled_pairs, disabled_pairs', k)
                        /\ SameCountsExcept(pair_failure_counts, pair_failure_counts', k)
               \/ /\ UNCHANGED <<global_trading_halt, disabled_pairs,
                                 pair_failure_counts, historical_high_balance_usdt>>
                  /\ \E e \in DOMAIN disabled_exchanges :
                        /\ SameExcept(disabled_exchanges, disabled_exchanges', e)
                        /\ SameCountsExcept(exchange_failure_counts,
                                            exchange_failure_counts', e)
               \/ UNCHANGED failsafe_vars]_vars

\* C39 witness: a reactivation has just succeeded with the halt lifted and the
\* loop still in the sleep of a halted iteration, while a pair is still disabled
\* and the failure counters of that pair and of an exchange still stand.
C39_HaltLiftedOthersKept ==
    /\ last = [op |-> "Reactivate", arg |-> "ok"]
    /\ ~global_trading_halt
    /\ \E t \in TaskIds : tasks[t].kind = "loop" /\ tasks[t].pc = "halt_sleep"
    /\ historical_high_balance_usdt > 0
    /\ alerts = <<Alert("FAILSAFE_DEACTIVATED", "info", "global")>>
    /\ \E k \in DOMAIN disabled_pairs : pair_failure_counts[k] > 0
    /\ \E e \in Exchanges : exchange_failure_counts[e] > 0

\* C40: the historical high of the portfolio value never decreases, whatever the
\* operation; right after a live settlement it is at least the portfolio value
\* computed at that settlement (and is either that value or the previous high);
\* and the halt for a drawdown is raised only when the portfolio value has dropped
\* from this high by more than the configured percentage, leaving the high as it is.
C40_HighWaterMark ==
    /\ [][historical_high_balance_usdt' >= historical_high_balance_usdt]_vars
    /\ [][(last'.op = "SellSettled" /\ current_mode = "live")
            => /\ historical_high_balance_usdt' >= last'.arg
               /\ historical_high_balance_usdt' \in {historical_high_balance_usdt, last'.arg}]_vars
    /\ [](\A value \in PortfolioValues :
             LET r == _check_failsafes(Registry, current_mode, value)
             IN /\ r.high = historical_high_balance_usdt
                /\ ~global_trading_halt
                     => (r.halt <=> /\ current_mode = "live"
                                    /\ historical_high_balance_usdt > 0
                                    /\ LossExceeds(historical_high_balance_usdt, value)))
    /\ [][(~global_trading_halt /\ global_trading_halt')
            => /\ historical_high_balance_usdt' = historical_high_balance_usdt
               /\ \E value \in PortfolioValues :
                     /\ value < historical_high_balance_usdt
                     /\ LossExceeds(historical_high_balance_usdt, value)]_vars

\* C40 witness: a second live execution has just settled at a portfolio value of
\* 90 after an earlier one settled at 100, and the high still stands at 100.
C40_LowerSettlementKeepsHigh ==
    /\ last = [op |-> "SellSettled", arg |-> 90]
    /\ current_mode = "live"
    /\ Len(trades) = MaxSettlements
    /\ historical_high_balance_usdt = 100
====
